---- MODULE Spec2Model ----
(***************************************************************************)
(* asciisky: the visibility pipeline (two-stage magnitude filter,          *)
(* deduplication, ranking), the orbit catalog loader with its cache, and   *)
(* the browser-side SkyRenderer.update() data loading.                     *)
(*                                                                         *)
(* Magnitudes are integers in hundredths of a magnitude (3.34 -> 334);     *)
(* names are sequences of character codes, so that they can be lowered,    *)
(* stripped and compared as the strings they stand for.                    *)
(***************************************************************************)
EXTENDS Integers, Sequences, FiniteSets, TLC

\* ------------------------------------------------------------------------
\* Bounds of the model
\* ------------------------------------------------------------------------
MaxRows == 3
\* concurrent callers of load()
MaxCallers == 2
\* the clock stops here (hours)
MaxTime == 9
\* one tick of the clock (hours)
TickHours == 3
\* rows of a cache file, written one at a time
RowsPerFile == 2
\* SkyRenderer.update() runs that can be in flight at once
MaxUpdates == 2
\* first upper transits of the target tried: 0..MaxPhases steps of PhaseStep
MaxPhases == 4
\* shiftHorizonLeft() / shiftHorizonRight() calls away from no shift
MaxShifts == 2
\* greatest heliocentric and observer distance tried (half AU)
MaxDistance == 5

\* ------------------------------------------------------------------------
\* Program constants
\* ------------------------------------------------------------------------
\* MAX_ABSOLUTE_MAGNITUDE (default 12.0), in hundredths
MAX_ABSOLUTE_MAGNITUDE == 1200
\* MAX_APPARENT_MAGNITUDE (default 12.0), in hundredths
MAX_APPARENT_MAGNITUDE == 1200
\* CACHE_VALIDITY_HOURS: default validity of a cache entry
CACHE_VALIDITY_HOURS == 6
\* a shorter maxStalenessHours a caller may pass
ShortStalenessHours == 3
\* the configured grace period (hours) beyond the staleness window in
\* which a stale entry is still served after a failed refresh
GraceHours == 3
\* the configuration that puts no limit on the grace period
NoGraceLimit == -1

VARIABLES
    catalog,     \* the parsed catalog rows handed to select()
    absCeil,     \* absoluteMagnitudeCeiling of the request
    appCeil,     \* apparentMagnitudeCeiling of the request
    ppc,         \* position of the request in the pipeline
    s1,          \* number of catalog rows Stage 1 has examined
    survivors,   \* rows that passed Stage 1, in catalog order
    s2,          \* number of surviving rows Stage 2 has processed
    kept,        \* bodies that passed Stage 2, in processing order
    dropped,     \* count of rows dropped by a per-row computation failure
    result,      \* the list returned by select()
    steps,       \* history: the stage of every per-row step, in order
    now,         \* wall clock, hours
    grace,       \* configured grace period, or NoGraceLimit
    cache,       \* per catalog kind: the catalog cache entry [rows, ts]
    rcache,      \* per catalog kind: the result cache entry [rows, ts]
    lock,        \* per catalog kind: the caller refreshing it, or 0
    cpc,         \* per caller: position in its request
    ckind,       \* per caller: catalogKind of its request
    cwin,        \* per caller: maxStalenessHours of its request
    cver,        \* per caller: the catalog version it downloads
    tmp,         \* per caller: rows written to its temporary file
    lres,        \* per caller: what load() returned, [status, rows, during]
    cres,        \* per caller: the response of its request, [status, rows]
    celestialData, \* SkyRenderer.celestialData: [present, bodies]
    container,   \* what the sky container shows: [kind, drawn]
    upc,         \* per update() run: the response it is awaiting
    uout,        \* per update() run: outcome of each of its requests
    location,    \* SkyRenderer.location: [latitude, longitude, elevation]
    asteroidMaxMagnitude, \* SkyRenderer.asteroidMaxMagnitude
    cometMaxMagnitude,    \* SkyRenderer.cometMaxMagnitude
    sent,        \* per update() run: the query of each request it has sent
    latest,      \* the update() run started most recently
    currentLocation, \* LocationDialog.currentLocation: [lat, lon, elevation, name]
    dlgOpen,     \* the location dialog is in the document
    latInput,    \* value of #lat-input
    lonInput,    \* value of #lon-input
    elevInput,   \* value of #elevation-input
    nameInput,   \* value of #location-name-input
    dlgOp,       \* the last operation on the dialog
    alerted,     \* the last operation raised alert(t('invalid_coordinates'))
    changed,     \* the location the last operation passed to onLocationChange
    \* --- event search and the object dialog
    evTarget,       \* the target's altitude curve and first upper transit
    evOffset,       \* the observer's UTC offset (minutes, east positive)
    evPc,           \* "idle", "found": findEvents has returned
    events,         \* what findEvents returned: rise, set, transit
    currentLanguage,\* i18n.js: the language of t()
    dialogInfo,     \* the time lines of the object dialog, "" if not shown
    \* --- cancellation of a select() request
    cancelled,      \* the caller has gone away
    inRow,          \* a Stage 2 row is being processed
    cancelledAt,    \* rows Stage 2 had completed when the caller went, or -1
    cancelledInRow, \* a row was being processed when the caller went
    \* --- render() and drawCelestialObject()
    skyBody,        \* the body of celestialData.bodies that is drawn
    showBelowHorizon, \* CONFIG.SHOW_BELOW_HORIZON
    isSelected,     \* the body is this.selectedObject
    nameLength,     \* the length of the body's name
    cardinals,      \* the column of each cardinal letter drawHorizon() wrote
    cells,          \* the cells of this.sky written since initSky() made the grid
    horizontalShift,\* SkyRenderer.horizontalShift (degrees)
    sky,            \* what render() did with the body: [rendered, drawn, row, col]
    \* --- asteroid_apparent_magnitude
    amH,            \* H: absolute magnitude (tenths of a magnitude)
    amG,            \* G: slope parameter (hundredths)
    amR,            \* r: heliocentric distance (half AU)
    amDelta,        \* delta: observer distance (half AU)
    amAlpha,        \* phase angle (tenths of a degree)
    amV,            \* the apparent magnitude computed (thousandths), or NoMagnitude
    amPrev,         \* the arguments and the result of the call before, if any
    settingsLocation,   \* settingsManager.settings.location
    serverSynced,       \* settingsManager.serverSynced
    syncPc,             \* the request setLocation() or syncSettingsToServer() awaits
    syncOutcome,        \* what the most recent of these calls received
    updatePc,           \* the request update() awaits (renderer with a location)
    updateLocation,     \* `location` of update(): getLocation() when it was called
    requests,           \* the query string of each request of that update()
    selectedObject,     \* the name of this.selectedObject, "null" if there is none
    dialogs,            \* the number of elements with id 'object-dialog'
    dialogKind,         \* which dialog was built last: for one body, or for several
    dialogList,         \* the names listed in the dialog for several bodies
    storedShift,        \* settings.display.horizontalShift
    clicked             \* what the last event was about

selectVars == <<catalog, absCeil, appCeil, ppc, s1, survivors, s2, kept,
                dropped, result, steps>>

loaderVars == <<now, grace, cache, rcache, lock, cpc, ckind, cwin, cver,
                tmp, lres, cres>>

rendererVars == <<celestialData, container, upc, uout, location,
                  asteroidMaxMagnitude, cometMaxMagnitude, sent, latest>>

dialogVars == <<currentLocation, dlgOpen, latInput, lonInput, elevInput, nameInput,
                dlgOp, alerted, changed>>

eventVars == <<evTarget, evOffset, evPc, events, currentLanguage, dialogInfo>>

cancelVars == <<cancelled, inRow, cancelledAt, cancelledInRow>>

drawVars == <<skyBody, showBelowHorizon, isSelected, nameLength, horizontalShift,
             cardinals, cells, sky>>

photometryVars == <<amH, amG, amR, amDelta, amAlpha, amV, amPrev>>

settingsVars == <<settingsLocation, serverSynced, syncPc, syncOutcome, updatePc, updateLocation, requests>>

skyVars == <<selectedObject, dialogs, dialogKind, dialogList, storedShift, clicked>>

vars == <<selectVars, loaderVars, rendererVars, dialogVars, eventVars, cancelVars, drawVars, photometryVars, settingsVars, skyVars>>

\* What each part of the program leaves alone: the state of the others.
exSelect == <<loaderVars, rendererVars, dialogVars, eventVars, cancelVars, drawVars, photometryVars, settingsVars, skyVars>>

exLoader == <<selectVars, rendererVars, dialogVars, eventVars, cancelVars, drawVars, photometryVars, settingsVars, skyVars>>

exRenderer == <<selectVars, loaderVars, dialogVars, eventVars, cancelVars, drawVars, photometryVars, settingsVars, skyVars>>

exDialog == <<selectVars, loaderVars, rendererVars, eventVars, cancelVars, drawVars, photometryVars, settingsVars, skyVars>>

exEvents == <<selectVars, loaderVars, rendererVars, dialogVars, cancelVars, drawVars, photometryVars, settingsVars, skyVars>>

exCancel == <<selectVars, loaderVars, rendererVars, dialogVars, eventVars, drawVars, photometryVars, settingsVars, skyVars>>

\* ------------------------------------------------------------------------
\* Catalog kinds, callers, cache entries
\* ------------------------------------------------------------------------
\* The catalog kinds served. The caches, the refresh lock and the requests
\* are keyed by kind; the documented pipeline is the asteroid (MPCORB) one.
Kinds == {"asteroids"}

Callers == 1..MaxCallers

NoEntry == [rows |-> <<>>, ts |-> -1]

\* ts: the last-refreshed stamp of the result entry a response was served from
NoResult == [status |-> "none", rows |-> <<>>, ts |-> -1]

NoLoad == [status |-> "none", rows |-> <<>>, during |-> FALSE]

\* No request is in progress and both caches are empty.
LoaderQuiet ==
    /\ now = 0
    /\ cache = [k \in Kinds |-> NoEntry]
    /\ rcache = [k \in Kinds |-> NoEntry]
    /\ lock = [k \in Kinds |-> 0]
    /\ cpc = [p \in Callers |-> "idle"]
    /\ ckind = [p \in Callers |-> "asteroids"]
    /\ cwin = [p \in Callers |-> CACHE_VALIDITY_HOURS]
    /\ cver = [p \in Callers |-> 0]
    /\ tmp = [p \in Callers |-> <<>>]
    /\ lres = [p \in Callers |-> NoLoad]
    /\ cres = [p \in Callers |-> NoResult]

\* ------------------------------------------------------------------------
\* SkyRenderer: update() runs, celestialData, the container
\* ------------------------------------------------------------------------
Updates == 1..MaxUpdates

\* this.celestialData = null
NoData == [present |-> FALSE, bodies |-> [n \in {} |-> TRUE]]

\* the container before anything was rendered into it
EmptyContainer == [kind |-> "empty", drawn |-> {}]

NoOutcome == [sky |-> "none", ast |-> "none", com |-> "none"]

\* The query string of a request: max_magnitude (0: the parameter is
\* absent) and the observer's lat, lon and elevation (hasObserver FALSE:
\* the three parameters are absent).
NoQuery ==
    [sent |-> FALSE, max_magnitude |-> 0, hasObserver |-> FALSE,
     lat |-> 0, lon |-> 0, elevation |-> 0]

NoRequests == [sky |-> NoQuery, ast |-> NoQuery, com |-> NoQuery]

\* The location of the default settings ("Wien"), whole degrees and meters.
DefaultLocation == [latitude |-> 48, longitude |-> 16, elevation |-> 171]

\* asteroidMaxMagnitude of the default settings (8.0)
DefaultAsteroidMagnitude == 8
\* cometMaxMagnitude of the default settings (12.0)
DefaultCometMagnitude == 12

\* The page is not open: no SkyRenderer exists.
RendererQuiet ==
    /\ celestialData = NoData
    /\ container = EmptyContainer
    /\ upc = [u \in Updates |-> "idle"]
    /\ uout = [u \in Updates |-> NoOutcome]
    /\ location = DefaultLocation
    /\ asteroidMaxMagnitude = DefaultAsteroidMagnitude
    /\ cometMaxMagnitude = DefaultCometMagnitude
    /\ sent = [u \in Updates |-> NoRequests]
    /\ latest = 0

\* ------------------------------------------------------------------------
\* LocationDialog: numbers, input strings, locations
\* ------------------------------------------------------------------------
\* A JavaScript number: NaN, or a value (whole degrees, whole meters).
NaN == [nan |-> TRUE, val |-> 0]

Number(n) == [nan |-> FALSE, val |-> n]

\* ASTRO_CONSTANTS.VIENNA_LAT, in whole degrees
VIENNA_LAT == 48
\* ASTRO_CONSTANTS.VIENNA_LON, in whole degrees
VIENNA_LON == 16
\* ASTRO_CONSTANTS.VIENNA_ELEVATION, meters
VIENNA_ELEVATION == 171

\* the location the constructor sets
ViennaLocation ==
    [lat |-> Number(VIENNA_LAT), lon |-> Number(VIENNA_LON),
     elevation |-> Number(VIENNA_ELEVATION), name |-> "Vienna"]

\* no location: onLocationChange was not invoked
NoLocation == [lat |-> NaN, lon |-> NaN, elevation |-> NaN, name |-> ""]

\* LocationDialog after its constructor: nothing shown, nothing typed.
DialogQuiet ==
    /\ currentLocation = ViennaLocation
    /\ dlgOpen = FALSE
    /\ latInput = <<>>
    /\ lonInput = <<>>
    /\ elevInput = <<>>
    /\ nameInput = ""
    /\ dlgOp = "none"
    /\ alerted = FALSE
    /\ changed = NoLocation

\* ------------------------------------------------------------------------
\* Event search: times, the result, the object dialog
\* ------------------------------------------------------------------------
\* null, or a time string (character codes).
NullTime == [null |-> TRUE, text |-> <<>>]

TimeString(text) == [null |-> FALSE, text |-> text]

NoEvents == [rise |-> NullTime, set |-> NullTime, transit |-> NullTime]

NoDialogInfo == [rise |-> <<>>, set |-> <<>>, transit |-> <<>>]

\* The event search and the object dialog are at rest.
EventsQuiet ==
    /\ evTarget = [mean |-> 0, amp |-> 0, phase |-> 0]
    /\ evOffset = 0
    /\ evPc = "idle"
    /\ events = NoEvents
    /\ currentLanguage = "de"
    /\ dialogInfo = NoDialogInfo

\* ------------------------------------------------------------------------
\* Cancellation
\* ------------------------------------------------------------------------
\* The caller of the request is there and no row is in progress.
CancelQuiet ==
    /\ cancelled = FALSE
    /\ inRow = FALSE
    /\ cancelledAt = -1
    /\ cancelledInRow = FALSE

\* ------------------------------------------------------------------------
\* The sky grid
\* ------------------------------------------------------------------------
SKY_WIDTH == 80

SKY_HEIGHT == 40

\* Row where the horizon is drawn
HORIZON_ROW == 20

\* render() has not run.
NotRendered == [rendered |-> FALSE, drawn |-> FALSE, row |-> 0, col |-> 0]

\* The grid is at rest.
DrawQuiet ==
    /\ skyBody = [altitude |-> 0, azimuth |-> 0, visible |-> FALSE]
    /\ showBelowHorizon = TRUE
    /\ isSelected = FALSE
    /\ nameLength = 3
    /\ horizontalShift = 0
    /\ cardinals = <<>>
    /\ cells = {}
    /\ sky = NotRendered

\* ------------------------------------------------------------------------
\* Apparent magnitude: the calls
\* ------------------------------------------------------------------------
\* No call of asteroid_apparent_magnitude has returned.
NoMagnitude == [known |-> FALSE, V |-> 0]

NoCall == [called |-> FALSE, H |-> 0, r |-> 0, delta |-> 0, V |-> 0]

PhotometryQuiet ==
    /\ amH = 0
    /\ amG = 15
    /\ amR = 1
    /\ amDelta = 1
    /\ amAlpha = 0
    /\ amV = NoMagnitude
    /\ amPrev = NoCall

\* ------------------------------------------------------------------------
\* SettingsManager and the update() that sends the observer's location
\* ------------------------------------------------------------------------
\* no request of update() was sent yet
NoUpdateRequests ==
    [sky |-> NoQuery, ast |-> NoQuery, com |-> NoQuery, bright |-> NoQuery]

SettingsQuiet ==
    /\ settingsLocation = DefaultLocation
    /\ serverSynced = FALSE
    /\ syncPc = "idle"
    /\ syncOutcome = "none"
    /\ updatePc = "idle"
    /\ updateLocation = DefaultLocation
    /\ requests = NoUpdateRequests

\* ------------------------------------------------------------------------
\* Selection, dialogs and clicks of SkyRenderer
\* ------------------------------------------------------------------------
\* Nothing is selected and no dialog is shown.
SkyQuiet ==
    /\ selectedObject = "null"
    /\ dialogs = 0
    /\ dialogKind = "none"
    /\ dialogList = {}
    /\ storedShift = 0
    /\ clicked = "none"

\* ------------------------------------------------------------------------
\* Names
\* ------------------------------------------------------------------------
\* "(4) Vesta"
NameVesta4 == <<40, 52, 41, 32, 86, 101, 115, 116, 97>>
\* "Vesta"
NameVesta == <<86, 101, 115, 116, 97>>
\* "VESTA"
NameVESTA == <<86, 69, 83, 84, 65>>
\* "(1) Ceres"
NameCeres1 == <<40, 49, 41, 32, 67, 101, 114, 101, 115>>
\* "(2) Pallas"
NamePallas2 == <<40, 50, 41, 32, 80, 97, 108, 108, 97, 115>>
\* "(3) Juno"
NameJuno3 == <<40, 51, 41, 32, 74, 117, 110, 111>>
\* "(5) Astraea"
NameAstraea5 == <<40, 53, 41, 32, 65, 115, 116, 114, 97, 101, 97>>
\* "(99) Dike"
NameDike99 == <<40, 57, 57, 41, 32, 68, 105, 107, 101>>
\* "(10) Hygiea"
NameHygiea10 == <<40, 49, 48, 41, 32, 72, 121, 103, 105, 101, 97>>

IsDigit(c) == c >= 48 /\ c <= 57

\* s without its first n characters
DropFirst(s, n) == SubSeq(s, n + 1, Len(s))

RECURSIVE SkipSpaces(_)
SkipSpaces(s) ==
    IF s # <<>> /\ s[1] = 32 THEN SkipSpaces(DropFirst(s, 1)) ELSE s

\* Strip a leading numeric designation "(<digits>)" and the blanks after it.
StripDesignation(s) ==
    LET closes == {j \in 3..Len(s) :
                      /\ s[j] = 41
                      /\ \A k \in 2..(j - 1) : IsDigit(s[k])}
    IN  IF s # <<>> /\ s[1] = 40 /\ closes # {}
        THEN SkipSpaces(DropFirst(s, CHOOSE j \in closes : TRUE))
        ELSE s

\* Lower-case a name, character by character.
LowerCase(s) ==
    [i \in 1..Len(s) |-> IF s[i] >= 65 /\ s[i] <= 90 THEN s[i] + 32 ELSE s[i]]

\* A key that keeps the name as it is.
RawKey(name) == name

\* The normalized name key: numeric designation stripped, case-insensitive.
NormKey(name) == LowerCase(StripDesignation(name))

\* Lexicographic order of two names by character code.
RECURSIVE NameLess(_, _)
NameLess(a, b) ==
    IF b = <<>> THEN FALSE
    ELSE IF a = <<>> THEN TRUE
    ELSE IF a[1] # b[1] THEN a[1] < b[1]
    ELSE NameLess(DropFirst(a, 1), DropFirst(b, 1))

\* ------------------------------------------------------------------------
\* Catalog rows
\* ------------------------------------------------------------------------
\* name: designation; H: absolute magnitude; dm: what geometry adds to H,
\* 5 log10(r delta) - 2.5 log10(phase term), at the request's time and
\* observer; ok: FALSE when the row's propagation or geometry fails.
Row(n, h, d, o) == [name |-> n, H |-> h, dm |-> d, ok |-> o]

CatalogRows ==
    { Row(NameVesta4,   334,  293, TRUE),    \* V = 6.27
      Row(NameVesta,    334,  293, TRUE),    \* the same body, undesignated
      Row(NameVESTA,    334,  296, TRUE),    \* the same body, upper case
      Row(NameCeres1,   333,  299, TRUE),    \* V = 6.32: ties with Vesta at 6.3
      Row(NamePallas2,  413,  787, TRUE),    \* V = 12.00: equal to the V ceiling
      Row(NameJuno3,    533,  671, TRUE),    \* V = 12.04: above the V ceiling
      Row(NameAstraea5, 690,  100, FALSE),   \* Kepler solver does not converge
      Row(NameDike99,   1200, -90, TRUE),    \* H equal to the H ceiling
      Row(NameHygiea10, 1250, -90, TRUE) }   \* H above the H ceiling

RECURSIVE SeqsUpTo(_, _)
SeqsUpTo(S, n) ==
    IF n = 0 THEN {<<>>}
    ELSE LET shorter == SeqsUpTo(S, n - 1)
         IN  shorter \cup {Append(q, x) : q \in shorter, x \in S}

Range(s) == {s[i] : i \in 1..Len(s)}

\* ------------------------------------------------------------------------
\* Photometry and the assembled body
\* ------------------------------------------------------------------------
\* Apparent magnitude of a row: H plus the distance and phase terms.
ApparentMagnitude(row) == row.H + row.dm

\* round(v, 1): hundredths to tenths, halves to the even tenth.
Round1(v) ==
    LET q == v \div 10
        r == v % 10
    IN  IF r < 5 THEN q
        ELSE IF r > 5 THEN q + 1
        ELSE IF q % 2 = 0 THEN q ELSE q + 1

\* The ApparentBody of a row: name and apparent magnitude rounded to 0.1.
Body(row) == [name |-> row.name, magnitude |-> Round1(ApparentMagnitude(row))]

\* ------------------------------------------------------------------------
\* Stage predicates
\* ------------------------------------------------------------------------
\* A prefilter that keeps a row whose H equals the ceiling.
PassesStage1Inclusive(row, ceil) == row.H <= ceil

\* Stage 1: keep rows with magnitude_H < MAX_ABSOLUTE_MAGNITUDE.
PassesStage1(row, ceil) == row.H < ceil

\* Stage 2: keep rows with V <= MAX_APPARENT_MAGNITUDE.
PassesStage2(row, ceil) == ApparentMagnitude(row) <= ceil

\* ------------------------------------------------------------------------
\* Post-filter: deduplication and ranking
\* ------------------------------------------------------------------------
\* Keep the first body of every key, in order.
RECURSIVE DedupeBy(_, _, _)
DedupeBy(bodies, seen, out) ==
    IF bodies = <<>> THEN out
    ELSE LET b == bodies[1]
             k == NormKey(b.name)
         IN  IF k \in seen
             THEN DedupeBy(DropFirst(bodies, 1), seen, out)
             ELSE DedupeBy(DropFirst(bodies, 1), seen \cup {k}, Append(out, b))

Dedupe(bodies) == DedupeBy(bodies, {}, <<>>)

\* An order on magnitude alone.
RanksBeforeByMagnitude(a, b) == a.magnitude < b.magnitude

\* The ranking order: ascending magnitude, ties broken by name.
RanksBefore(a, b) ==
    \/ a.magnitude < b.magnitude
    \/ a.magnitude = b.magnitude /\ NameLess(a.name, b.name)

\* Insert b into the sorted list s, after every body that does not rank
\* after it (a stable insertion).
RECURSIVE InsertRanked(_, _)
InsertRanked(s, b) ==
    IF s = <<>> THEN <<b>>
    ELSE IF RanksBefore(b, s[1]) THEN <<b>> \o s
    ELSE <<s[1]>> \o InsertRanked(DropFirst(s, 1), b)

RECURSIVE SortBodies(_)
SortBodies(s) ==
    IF s = <<>> THEN <<>>
    ELSE InsertRanked(SortBodies(SubSeq(s, 1, Len(s) - 1)), s[Len(s)])

\* The post-filter applied to the bodies Stage 2 kept.
PostFilterResult(bodies) == SortBodies(Dedupe(bodies))

\* ------------------------------------------------------------------------
\* select(catalog, observer, absoluteMagnitudeCeiling, apparentMagnitudeCeiling)
\* ------------------------------------------------------------------------
InitSelect ==
    /\ SkyQuiet
    /\ SettingsQuiet
    /\ PhotometryQuiet
    /\ DrawQuiet
    /\ CancelQuiet
    /\ EventsQuiet
    /\ DialogQuiet
    /\ LoaderQuiet
    /\ RendererQuiet
    /\ grace = GraceHours
    /\ catalog \in SeqsUpTo(CatalogRows, MaxRows)
    /\ absCeil = MAX_ABSOLUTE_MAGNITUDE
    /\ appCeil \in {MAX_APPARENT_MAGNITUDE, 700}
    /\ ppc = "stage1"
    /\ s1 = 0
    /\ survivors = <<>>
    /\ s2 = 0
    /\ kept = <<>>
    /\ dropped = 0
    /\ result = <<>>
    /\ steps = <<>>

\* Stage 1 examines the next catalog row.
Stage1Step ==
    /\ ppc = "stage1"
    /\ s1 < Len(catalog)
    /\ LET row == catalog[s1 + 1]
       IN  survivors' = IF PassesStage1(row, absCeil)
                        THEN Append(survivors, row)
                        ELSE survivors
    /\ s1' = s1 + 1
    /\ steps' = Append(steps, "stage1")
    /\ UNCHANGED <<catalog, absCeil, appCeil, ppc, s2, kept, dropped, result>>
    /\ UNCHANGED exSelect

\* Stage 1 hands over before it has examined every row.
Stage1DoneEarly ==
    /\ ppc = "stage1"
    /\ ppc' = "stage2"
    /\ UNCHANGED <<catalog, absCeil, appCeil, s1, survivors, s2, kept,
                   dropped, result, steps>>
    /\ UNCHANGED exSelect

\* Stage 1 has examined every row: the survivors go to Stage 2.
Stage1Done ==
    /\ ppc = "stage1"
    /\ s1 = Len(catalog)
    /\ ppc' = "stage2"
    /\ UNCHANGED <<catalog, absCeil, appCeil, s1, survivors, s2, kept,
                   dropped, result, steps>>
    /\ UNCHANGED exSelect

\* A failing row that ends the batch with an error.
OnRowFailureAbort ==
    /\ ppc' = "error"
    /\ UNCHANGED <<kept, dropped>>

\* A row whose computation fails (Kepler non-convergence, degenerate
\* geometry) is counted and dropped; the loop goes on.
OnRowFailure ==
    /\ dropped' = dropped + 1
    /\ UNCHANGED <<kept, ppc>>

\* One iteration of the Stage 2 loop on the next surviving row:
\* propagation, geometry and photometry, then the apparent-magnitude filter.
ProcessRow ==
    /\ LET row == survivors[s2 + 1]
       IN  IF ~row.ok
           THEN OnRowFailure
           ELSE /\ kept' = IF PassesStage2(row, appCeil)
                           THEN Append(kept, Body(row))
                           ELSE kept
                /\ UNCHANGED <<ppc, dropped>>
    /\ s2' = s2 + 1
    /\ steps' = Append(steps, "stage2")
    /\ UNCHANGED <<catalog, absCeil, appCeil, s1, survivors, result>>

\* Stage 2 processes the next surviving row.
Stage2Step ==
    /\ ppc = "stage2"
    /\ s2 < Len(survivors)
    /\ ProcessRow
    /\ UNCHANGED exSelect

\* Every surviving row is processed: deduplicate, rank, return.
PostFilter ==
    /\ ppc = "stage2"
    /\ s2 = Len(survivors)
    /\ result' = PostFilterResult(kept)
    /\ ppc' = "done"
    /\ UNCHANGED <<catalog, absCeil, appCeil, s1, survivors, s2, kept,
                   dropped, steps>>
    /\ UNCHANGED exSelect

NextSelect ==
    \/ Stage1Step
    \/ Stage1Done
    \/ Stage2Step
    \/ PostFilter

SpecSelect == InitSelect /\ [][NextSelect]_vars

\* ------------------------------------------------------------------------
\* select() with a caller that can go away
\* ------------------------------------------------------------------------
\* Everything but the request and its cancellation.
exRequest == <<loaderVars, rendererVars, dialogVars, eventVars, drawVars, photometryVars, settingsVars, skyVars>>

exDraw == <<selectVars, loaderVars, rendererVars, dialogVars, eventVars, cancelVars, photometryVars, settingsVars, skyVars>>

exPhotometry == <<selectVars, loaderVars, rendererVars, dialogVars, eventVars, cancelVars, drawVars, settingsVars, skyVars>>

exSettings == <<selectVars, loaderVars, rendererVars, dialogVars, eventVars, cancelVars, drawVars, photometryVars, skyVars>>

InitCancel ==
    /\ SkyQuiet
    /\ SettingsQuiet
    /\ PhotometryQuiet
    /\ DrawQuiet
    /\ EventsQuiet
    /\ DialogQuiet
    /\ LoaderQuiet
    /\ RendererQuiet
    /\ CancelQuiet
    /\ grace = GraceHours
    /\ catalog \in SeqsUpTo(CatalogRows, MaxRows)
    /\ absCeil = MAX_ABSOLUTE_MAGNITUDE
    /\ appCeil = MAX_APPARENT_MAGNITUDE
    /\ ppc = "stage1"
    /\ s1 = 0
    /\ survivors = <<>>
    /\ s2 = 0
    /\ kept = <<>>
    /\ dropped = 0
    /\ result = <<>>
    /\ steps = <<>>

\* The caller goes away while the request is running.
CallerGone ==
    /\ ppc \in {"stage1", "stage2"}
    /\ ~cancelled
    /\ cancelled' = TRUE
    /\ cancelledAt' = s2
    /\ cancelledInRow' = inRow
    /\ UNCHANGED inRow
    /\ UNCHANGED selectVars
    /\ UNCHANGED exRequest

\* The loop starts the next row without looking at the caller.
BeginRowUnchecked ==
    /\ ppc = "stage2"
    /\ ~inRow
    /\ s2 < Len(survivors)
    /\ inRow' = TRUE
    /\ UNCHANGED <<cancelled, cancelledAt, cancelledInRow>>
    /\ UNCHANGED selectVars
    /\ UNCHANGED exRequest

\* The cooperative check between rows: the loop starts the next row only
\* if the caller is still there.
BeginRow ==
    /\ ppc = "stage2"
    /\ ~inRow
    /\ ~cancelled
    /\ s2 < Len(survivors)
    /\ inRow' = TRUE
    /\ UNCHANGED <<cancelled, cancelledAt, cancelledInRow>>
    /\ UNCHANGED selectVars
    /\ UNCHANGED exRequest

\* The row in progress is completed.
FinishRow ==
    /\ inRow
    /\ ProcessRow
    /\ inRow' = FALSE
    /\ UNCHANGED <<cancelled, cancelledAt, cancelledInRow>>
    /\ UNCHANGED exRequest

\* The check between rows finds the caller gone: the request stops.
StopCancelled ==
    /\ ppc = "stage2"
    /\ ~inRow
    /\ cancelled
    /\ ppc' = "cancelled"
    /\ UNCHANGED <<catalog, absCeil, appCeil, s1, survivors, s2, kept,
                   dropped, result, steps>>
    /\ UNCHANGED cancelVars
    /\ UNCHANGED exRequest

\* Every surviving row is processed and the caller is there: the result
\* is returned.
PostFilterForCaller ==
    /\ ~cancelled
    /\ PostFilter

NextCancel ==
    \/ Stage1Step
    \/ Stage1Done
    \/ CallerGone
    \/ BeginRow
    \/ FinishRow
    \/ StopCancelled
    \/ PostFilterForCaller

SpecCancel == InitCancel /\ [][NextCancel]_vars


\* ------------------------------------------------------------------------
\* Orbit Catalog Loader and result cache
\* ------------------------------------------------------------------------
\* A request for one body class looks at the result cache of its catalog
\* kind, and on a miss calls load(catalogKind, maxStalenessHours), assembles
\* the result list and stores it in the result cache.
\*
\* One process-wide catalog cache entry and one result cache entry per
\* catalog kind. A caller of load() that finds the entry missing or stale
\* while another caller refreshes that kind waits for the refresh to end
\* and looks at the cache again.
Present(k) == cache[k].ts >= 0

Age(k) == now - cache[k].ts

\* The catalog entry of kind k is within the staleness window w.
Fresh(k, w) == Present(k) /\ Age(k) <= w

\* The result entry of kind k is within the staleness window w.
ResultFresh(k, w) == rcache[k].ts >= 0 /\ now - rcache[k].ts <= w

\* After a failed refresh the previous entry of kind k may be served: it
\* exists and is within the grace period beyond the staleness window.
Servable(k, w) ==
    /\ Present(k)
    /\ grace = NoGraceLimit \/ Age(k) <= w + grace

\* The catalog published upstream differs from the cached one: catalog
\* versions alternate between 1 and 2.
NewVersion(k) == IF Present(k) /\ cache[k].rows[1] = 1 THEN 2 ELSE 1

\* The values of maxStalenessHours that callers pass.
Windows == {CACHE_VALIDITY_HOURS, ShortStalenessHours}

SelectQuiet ==
    /\ catalog = <<>>
    /\ absCeil = MAX_ABSOLUTE_MAGNITUDE
    /\ appCeil = MAX_APPARENT_MAGNITUDE
    /\ ppc = "stage1"
    /\ s1 = 0
    /\ survivors = <<>>
    /\ s2 = 0
    /\ kept = <<>>
    /\ dropped = 0
    /\ result = <<>>
    /\ steps = <<>>

InitLoader ==
    /\ SkyQuiet
    /\ SettingsQuiet
    /\ PhotometryQuiet
    /\ DrawQuiet
    /\ CancelQuiet
    /\ EventsQuiet
    /\ DialogQuiet
    /\ SelectQuiet
    /\ LoaderQuiet
    /\ RendererQuiet
    /\ grace \in {GraceHours, NoGraceLimit}

\* The arguments and locals of a request are gone when it returns.
Return(p, response) ==
    /\ cres' = [cres EXCEPT ![p] = response]
    /\ cpc' = [cpc EXCEPT ![p] = "done"]
    /\ ckind' = [ckind EXCEPT ![p] = "asteroids"]
    /\ cwin' = [cwin EXCEPT ![p] = CACHE_VALIDITY_HOURS]
    /\ cver' = [cver EXCEPT ![p] = 0]
    /\ tmp' = [tmp EXCEPT ![p] = <<>>]
    /\ lres' = [lres EXCEPT ![p] = NoLoad]

\* load() returns `loaded` to its caller, which goes on to assemble.
Loaded(p, k, w, loaded) ==
    /\ lres' = [lres EXCEPT ![p] = loaded]
    /\ cpc' = [cpc EXCEPT ![p] = "assemble"]
    /\ ckind' = [ckind EXCEPT ![p] = k]
    /\ cwin' = [cwin EXCEPT ![p] = w]
    /\ cver' = [cver EXCEPT ![p] = 0]
    /\ tmp' = [tmp EXCEPT ![p] = <<>>]

\* Result cache hit: the finished list is returned as it is.
ResultHit(p, k, w) ==
    /\ cpc[p] \in {"idle", "done"}
    /\ ResultFresh(k, w)
    /\ Return(p, [status |-> "cached", rows |-> rcache[k].rows,
                  ts |-> rcache[k].ts])
    /\ UNCHANGED <<now, grace, cache, rcache, lock>>
    /\ UNCHANGED exLoader

\* Caller p is at the entry of load(k, w): its request missed the result
\* cache, or it has waited for another caller's refresh of k and looks at
\* the catalog cache again.
AtEntry(p, k, w) ==
    \/ cpc[p] \in {"idle", "done"} /\ ~ResultFresh(k, w)
    \/ cpc[p] = "wait" /\ ckind[p] = k /\ cwin[p] = w

\* Catalog cache hit: the entry is within the window; the cached parse is
\* returned without touching the network.
Hit(p, k, w) ==
    /\ AtEntry(p, k, w)
    /\ Fresh(k, w)
    /\ Loaded(p, k, w, [status |-> "hit", rows |-> cache[k].rows,
                        during |-> lock[k] # 0])
    /\ cres' = [cres EXCEPT ![p] = NoResult]
    /\ UNCHANGED <<now, grace, cache, rcache, lock>>
    /\ UNCHANGED exLoader

\* A refresh that starts although another caller refreshes the same kind.
BeginRefreshUnlocked(p, k, w) ==
    /\ AtEntry(p, k, w)
    /\ ~Fresh(k, w)
    /\ lock' = [lock EXCEPT ![k] = p]
    /\ cver' = [cver EXCEPT ![p] = NewVersion(k)]
    /\ cpc' = [cpc EXCEPT ![p] = "download"]
    /\ ckind' = [ckind EXCEPT ![p] = k]
    /\ cwin' = [cwin EXCEPT ![p] = w]
    /\ cres' = [cres EXCEPT ![p] = NoResult]
    /\ UNCHANGED <<now, grace, cache, rcache, tmp, lres>>
    /\ UNCHANGED exLoader

\* A refresh that starts whatever the age of the entry.
BeginRefreshAlways(p, k, w) ==
    /\ AtEntry(p, k, w)
    /\ lock[k] = 0
    /\ lock' = [lock EXCEPT ![k] = p]
    /\ cver' = [cver EXCEPT ![p] = NewVersion(k)]
    /\ cpc' = [cpc EXCEPT ![p] = "download"]
    /\ ckind' = [ckind EXCEPT ![p] = k]
    /\ cwin' = [cwin EXCEPT ![p] = w]
    /\ cres' = [cres EXCEPT ![p] = NoResult]
    /\ UNCHANGED <<now, grace, cache, rcache, tmp, lres>>
    /\ UNCHANGED exLoader

\* Catalog cache miss: the entry is missing or stale and nobody refreshes
\* this kind: the caller becomes its refresher and starts the download.
BeginRefresh(p, k, w) ==
    /\ AtEntry(p, k, w)
    /\ ~Fresh(k, w)
    /\ lock[k] = 0
    /\ lock' = [lock EXCEPT ![k] = p]
    /\ cver' = [cver EXCEPT ![p] = NewVersion(k)]
    /\ cpc' = [cpc EXCEPT ![p] = "download"]
    /\ ckind' = [ckind EXCEPT ![p] = k]
    /\ cwin' = [cwin EXCEPT ![p] = w]
    /\ cres' = [cres EXCEPT ![p] = NoResult]
    /\ UNCHANGED <<now, grace, cache, rcache, tmp, lres>>
    /\ UNCHANGED exLoader

\* Catalog cache miss while another caller refreshes this kind: the caller
\* waits for that refresh to end.
Wait(p, k, w) ==
    /\ cpc[p] \in {"idle", "done"}
    /\ ~ResultFresh(k, w)
    /\ ~Fresh(k, w)
    /\ lock[k] # 0
    /\ cpc' = [cpc EXCEPT ![p] = "wait"]
    /\ ckind' = [ckind EXCEPT ![p] = k]
    /\ cwin' = [cwin EXCEPT ![p] = w]
    /\ cres' = [cres EXCEPT ![p] = NoResult]
    /\ UNCHANGED <<now, grace, cache, rcache, lock, cver, tmp, lres>>
    /\ UNCHANGED exLoader

\* The download delivers the raw catalog.
DownloadOk(p) ==
    /\ cpc[p] = "download"
    /\ cpc' = [cpc EXCEPT ![p] = "parse"]
    /\ UNCHANGED <<now, grace, cache, rcache, lock, ckind, cwin, cver, tmp,
                   lres, cres>>
    /\ UNCHANGED exLoader

\* The raw catalog parses into typed rows.
ParseOk(p) ==
    /\ cpc[p] = "parse"
    /\ cpc' = [cpc EXCEPT ![p] = "write"]
    /\ tmp' = [tmp EXCEPT ![p] = <<>>]
    /\ UNCHANGED <<now, grace, cache, rcache, lock, ckind, cwin, cver, lres,
                   cres>>
    /\ UNCHANGED exLoader

\* The next row written straight into the cache entry.
WriteInPlace(p) ==
    /\ cpc[p] = "write"
    /\ Len(tmp[p]) < RowsPerFile
    /\ tmp' = [tmp EXCEPT ![p] = Append(tmp[p], cver[p])]
    /\ cache' = [cache EXCEPT ![ckind[p]] =
                    [rows |-> Append(tmp[p], cver[p]), ts |-> now]]
    /\ UNCHANGED <<now, grace, rcache, lock, cpc, ckind, cwin, cver, lres,
                   cres>>
    /\ UNCHANGED exLoader

\* The next row is written to the caller's temporary file.
WriteTemp(p) ==
    /\ cpc[p] = "write"
    /\ Len(tmp[p]) < RowsPerFile
    /\ tmp' = [tmp EXCEPT ![p] = Append(tmp[p], cver[p])]
    /\ UNCHANGED <<now, grace, cache, rcache, lock, cpc, ckind, cwin, cver,
                   lres, cres>>
    /\ UNCHANGED exLoader

\* The complete temporary file is renamed over the cache entry: one atomic
\* step. The refresh ends and load() returns the new parse.
Rename(p) ==
    /\ cpc[p] = "write"
    /\ Len(tmp[p]) = RowsPerFile
    /\ cache' = [cache EXCEPT ![ckind[p]] = [rows |-> tmp[p], ts |-> now]]
    /\ lock' = [lock EXCEPT ![ckind[p]] = 0]
    /\ Loaded(p, ckind[p], cwin[p],
              [status |-> "fresh", rows |-> tmp[p], during |-> FALSE])
    /\ UNCHANGED <<now, grace, rcache, cres>>
    /\ UNCHANGED exLoader

\* A failure handler that discards the previous entry and reports an error.
FailOverDiscard(p) ==
    /\ cache' = [cache EXCEPT ![ckind[p]] = NoEntry]
    /\ lock' = [lock EXCEPT ![ckind[p]] = 0]
    /\ Return(p, [status |-> "error", rows |-> <<>>, ts |-> -1])
    /\ UNCHANGED <<now, grace, rcache>>
    /\ UNCHANGED exLoader

\* The refresh failed: load() returns the previous entry if it may be
\* served; otherwise it ends in a retryable error, and so does the request.
\* The cache is not touched.
FailOver(p) ==
    /\ lock' = [lock EXCEPT ![ckind[p]] = 0]
    /\ IF Servable(ckind[p], cwin[p])
       THEN /\ Loaded(p, ckind[p], cwin[p],
                      [status |-> "stale", rows |-> cache[ckind[p]].rows,
                       during |-> FALSE])
            /\ UNCHANGED cres
       ELSE Return(p, [status |-> "error", rows |-> <<>>, ts |-> -1])
    /\ UNCHANGED <<now, grace, cache, rcache>>
    /\ UNCHANGED exLoader

\* The download fails: a network error, or its timeout.
DownloadFail(p) ==
    /\ cpc[p] = "download"
    /\ FailOver(p)

\* The raw catalog does not parse.
ParseFail(p) ==
    /\ cpc[p] = "parse"
    /\ FailOver(p)

\* The body of the next catalog row is written to the temporary file of
\* the result list.
AssembleRow(p) ==
    /\ cpc[p] = "assemble"
    /\ Len(tmp[p]) < Len(lres[p].rows)
    /\ tmp' = [tmp EXCEPT ![p] = Append(tmp[p], lres[p].rows[Len(tmp[p]) + 1])]
    /\ UNCHANGED <<now, grace, cache, rcache, lock, cpc, ckind, cwin, cver,
                   lres, cres>>
    /\ UNCHANGED exLoader

\* The finished list replaces the result cache entry whatever the age of
\* the entry it finds there.
StoreResultOverwrite(p) ==
    /\ cpc[p] = "assemble"
    /\ Len(tmp[p]) = Len(lres[p].rows)
    /\ rcache' = [rcache EXCEPT ![ckind[p]] = [rows |-> tmp[p], ts |-> now]]
    /\ Return(p, [status |-> "computed", rows |-> tmp[p], ts |-> now])
    /\ UNCHANGED <<now, grace, cache, lock>>
    /\ UNCHANGED exLoader

\* The list is finished. Invalidation of the result cache is time-based
\* only: an entry that another request has stored meanwhile and that is
\* still within the window stays and is what the request returns; otherwise
\* the finished list is renamed over the entry, in one atomic step, and
\* returned.
StoreResult(p) ==
    /\ cpc[p] = "assemble"
    /\ Len(tmp[p]) = Len(lres[p].rows)
    /\ IF ResultFresh(ckind[p], cwin[p])
       THEN /\ UNCHANGED rcache
            /\ Return(p, [status |-> "cached", rows |-> rcache[ckind[p]].rows,
                          ts |-> rcache[ckind[p]].ts])
       ELSE /\ rcache' = [rcache EXCEPT ![ckind[p]] =
                             [rows |-> tmp[p], ts |-> now]]
            /\ Return(p, [status |-> "computed", rows |-> tmp[p], ts |-> now])
    /\ UNCHANGED <<now, grace, cache, lock>>
    /\ UNCHANGED exLoader

\* Time passes.
Tick ==
    /\ now + TickHours <= MaxTime
    /\ now' = now + TickHours
    /\ UNCHANGED <<grace, cache, rcache, lock, cpc, ckind, cwin, cver, tmp,
                   lres, cres>>
    /\ UNCHANGED exLoader

NextLoader ==
    \/ \E p \in Callers, k \in Kinds, w \in Windows : ResultHit(p, k, w)
    \/ \E p \in Callers, k \in Kinds, w \in Windows : Hit(p, k, w)
    \/ \E p \in Callers, k \in Kinds, w \in Windows : BeginRefresh(p, k, w)
    \/ \E p \in Callers, k \in Kinds, w \in Windows : Wait(p, k, w)
    \/ \E p \in Callers : DownloadOk(p)
    \/ \E p \in Callers : DownloadFail(p)
    \/ \E p \in Callers : ParseOk(p)
    \/ \E p \in Callers : ParseFail(p)
    \/ \E p \in Callers : WriteTemp(p)
    \/ \E p \in Callers : Rename(p)
    \/ \E p \in Callers : AssembleRow(p)
    \/ \E p \in Callers : StoreResult(p)
    \/ Tick

SpecLoader == InitLoader /\ [][NextLoader]_vars

\* ------------------------------------------------------------------------
\* The full pipeline as deployed: every request uses the one configured
\* staleness window, CACHE_VALIDITY_HOURS
\* ------------------------------------------------------------------------
ConfiguredWindows == {CACHE_VALIDITY_HOURS}

NextPipeline ==
    \/ \E p \in Callers, k \in Kinds, w \in ConfiguredWindows : ResultHit(p, k, w)
    \/ \E p \in Callers, k \in Kinds, w \in ConfiguredWindows : Hit(p, k, w)
    \/ \E p \in Callers, k \in Kinds, w \in ConfiguredWindows : BeginRefresh(p, k, w)
    \/ \E p \in Callers, k \in Kinds, w \in ConfiguredWindows : Wait(p, k, w)
    \/ \E p \in Callers : DownloadOk(p)
    \/ \E p \in Callers : DownloadFail(p)
    \/ \E p \in Callers : ParseOk(p)
    \/ \E p \in Callers : ParseFail(p)
    \/ \E p \in Callers : WriteTemp(p)
    \/ \E p \in Callers : Rename(p)
    \/ \E p \in Callers : AssembleRow(p)
    \/ \E p \in Callers : StoreResult(p)
    \/ Tick

SpecPipeline == InitLoader /\ [][NextPipeline]_vars

\* ------------------------------------------------------------------------
\* SkyRenderer.update(), loadAsteroids(), loadComets(), render()
\* ------------------------------------------------------------------------
\* How a request ends: a response with an OK status and a body, a response
\* with a non-OK status, or a rejected fetch.
Outcomes == {"ok", "http_error", "rejected"}

BaseNames == {"sun", "moon", "mars"}

\* bodies of a response of API_ENDPOINTS.SKY; the server decides `visible`
SkyBodies(marsVisible) ==
    [n \in BaseNames |->
        [type |-> "planet",
         visible |-> IF n = "mars" THEN marsVisible ELSE TRUE]]

\* the bright minor planets the asteroid endpoint knows, magnitudes in
\* whole magnitudes
AsteroidBodies ==
    [n \in {"Vesta", "Pallas"} |->
        [type |-> "asteroid", visible |-> n = "Vesta",
         magnitude |-> IF n = "Vesta" THEN 6 ELSE 9]]

\* the comets the comet endpoint knows
CometBodies ==
    [n \in {"Halley"} |->
        [type |-> "comet", visible |-> TRUE, magnitude |-> 13]]

\* bodies of the response to a request with query q: those of `known` not
\* fainter than max_magnitude, or than the server's ceiling when the
\* parameter is absent.
ResponseBodies(known, q, serverCeiling) ==
    LET ceiling == IF q.max_magnitude = 0 THEN serverCeiling
                   ELSE q.max_magnitude
        names == {n \in DOMAIN known : known[n].magnitude <= ceiling}
    IN  [n \in names |-> known[n]]

\* { ...a, ...b }
Spread(a, b) ==
    [n \in (DOMAIN a) \union (DOMAIN b) |->
        IF n \in DOMAIN b THEN b[n] ELSE a[n]]

\* The sky container after render(): the sky text, into which the bodies
\* with `visible` set were drawn, and the navigation arrows. render()
\* returns at once while celestialData is null.
Render(data, shown) ==
    IF ~data.present
    THEN shown
    ELSE [kind |-> "sky",
          drawn |-> {n \in DOMAIN data.bodies : data.bodies[n].visible}]

\* this.container.textContent = t('error_loading')
ErrorLoading == [kind |-> "error_loading", drawn |-> {}]

\* celestialData after the try block of loadAsteroids() or loadComets()
\* whose request ended with outcome o: the bodies are merged in on
\* success; a failure is caught and logged.
AfterLoad(o, bodies) ==
    IF o = "ok" /\ celestialData.present
    THEN [celestialData EXCEPT !.bodies = Spread(@, bodies)]
    ELSE celestialData

\* fetch(API_ENDPOINTS.SKY): no query string
SkyQuery == [NoQuery EXCEPT !.sent = TRUE]

\* The query loadAsteroids() and loadComets() build: max_magnitude if the
\* ceiling is truthy, then lat, lon and elevation of this.location.
LoadQuery(maxMagnitude) ==
    [sent |-> TRUE, max_magnitude |-> maxMagnitude, hasObserver |-> TRUE,
     lat |-> location.latitude, lon |-> location.longitude,
     elevation |-> location.elevation]

\* locations found in the stored settings
StoredLocations ==
    {DefaultLocation, [latitude |-> -34, longitude |-> 151, elevation |-> 0]}

\* magnitude ceilings the user sets: [asteroid, comet]
MagnitudeSettings ==
    {[asteroid |-> 8, comet |-> 12], [asteroid |-> 10, comet |-> 14]}

\* The record of the outcomes and queries of a run is kept while the run
\* is in flight and, after that, for the run started most recently.
Kept(u, record, none) == IF u = latest THEN record ELSE none

\* update() up to its first await: the sky request is sent. The run takes
\* the first free place among the runs; the records of the finished runs
\* are dropped.
BeginUpdate(u) ==
    /\ upc[u] \in {"idle", "done"}
    /\ \A v \in Updates : v < u => upc[v] \notin {"idle", "done"}
    /\ upc' = [upc EXCEPT ![u] = "sky"]
    /\ uout' = [v \in Updates |->
                  IF v = u \/ upc[v] = "done" THEN NoOutcome ELSE uout[v]]
    /\ sent' = [v \in Updates |->
                  IF v = u THEN [NoRequests EXCEPT !.sky = SkyQuery]
                  ELSE IF upc[v] = "done" THEN NoRequests ELSE sent[v]]
    /\ latest' = u

InitRenderer ==
    /\ SkyQuiet
    /\ SettingsQuiet
    /\ PhotometryQuiet
    /\ DrawQuiet
    /\ CancelQuiet
    /\ EventsQuiet
    /\ SelectQuiet
    /\ LoaderQuiet
    /\ grace = GraceHours
    /\ DialogQuiet
    /\ celestialData = NoData
    /\ container = EmptyContainer
    /\ location \in StoredLocations
    /\ \E m \in MagnitudeSettings :
          asteroidMaxMagnitude = m.asteroid /\ cometMaxMagnitude = m.comet
    \* the constructor has called update(), which awaits the sky response
    /\ upc = [u \in Updates |-> IF u = 1 THEN "sky" ELSE "idle"]
    /\ uout = [u \in Updates |-> NoOutcome]
    /\ sent = [u \in Updates |->
                  IF u = 1 THEN [NoRequests EXCEPT !.sky = SkyQuery]
                  ELSE NoRequests]
    /\ latest = 1

\* update() is called (timer tick, startAutoUpdate) and runs up to its
\* first await.
StartUpdate(u) ==
    /\ BeginUpdate(u)
    /\ UNCHANGED <<celestialData, container, location, asteroidMaxMagnitude,
                   cometMaxMagnitude>>
    /\ UNCHANGED exRenderer

\* setMagnitudeFilters(asteroidMag, cometMag): the ceilings are set and
\* saved, and update() is called.
SetMagnitudeFilters(u) ==
    /\ \E m \in MagnitudeSettings :
          /\ asteroidMaxMagnitude' = m.asteroid
          /\ cometMaxMagnitude' = m.comet
    /\ BeginUpdate(u)
    /\ UNCHANGED <<celestialData, container, location>>
    /\ UNCHANGED exRenderer

\* The sky request of update() u ends. On success celestialData is
\* replaced and loadAsteroids() sends its request; on failure the catch
\* block of update() shows the error message.
SkyResponse(u) ==
    /\ upc[u] = "sky"
    /\ \E o \in Outcomes :
          /\ IF o = "ok"
             THEN /\ celestialData' =
                        [present |-> TRUE, bodies |-> SkyBodies(FALSE)]
                  /\ upc' = [upc EXCEPT ![u] = "asteroids"]
                  /\ uout' = [uout EXCEPT ![u].sky = o]
                  /\ sent' = [sent EXCEPT
                                 ![u].ast = LoadQuery(asteroidMaxMagnitude)]
                  /\ UNCHANGED container
             ELSE /\ container' = ErrorLoading
                  /\ upc' = [upc EXCEPT ![u] = "done"]
                  /\ uout' = [uout EXCEPT
                                 ![u] = Kept(u, [@ EXCEPT !.sky = o], NoOutcome)]
                  /\ sent' = [sent EXCEPT ![u] = Kept(u, @, NoRequests)]
                  /\ UNCHANGED celestialData
    /\ UNCHANGED <<location, asteroidMaxMagnitude, cometMaxMagnitude, latest>>
    /\ UNCHANGED exRenderer

\* The asteroid request ends and nothing catches its failure.
AsteroidResponseUncaught(u) ==
    /\ upc[u] = "asteroids"
    /\ \E o \in Outcomes :
          /\ celestialData' =
                AfterLoad(o, ResponseBodies(AsteroidBodies, sent[u].ast,
                                            DefaultAsteroidMagnitude))
          /\ IF o = "ok"
             THEN /\ upc' = [upc EXCEPT ![u] = "comets"]
                  /\ uout' = [uout EXCEPT ![u].ast = o]
                  /\ sent' = [sent EXCEPT
                                 ![u].com = LoadQuery(cometMaxMagnitude)]
                  /\ UNCHANGED container
             ELSE /\ container' = ErrorLoading
                  /\ upc' = [upc EXCEPT ![u] = "done"]
                  /\ uout' = [uout EXCEPT
                                 ![u] = Kept(u, [@ EXCEPT !.ast = o], NoOutcome)]
                  /\ sent' = [sent EXCEPT ![u] = Kept(u, @, NoRequests)]
    /\ UNCHANGED <<location, asteroidMaxMagnitude, cometMaxMagnitude, latest>>
    /\ UNCHANGED exRenderer

\* The asteroid request of update() u ends: loadAsteroids() finishes,
\* whatever the outcome, and loadComets() sends its request.
AsteroidResponse(u) ==
    /\ upc[u] = "asteroids"
    /\ \E o \in Outcomes :
          /\ uout' = [uout EXCEPT ![u].ast = o]
          /\ celestialData' =
                AfterLoad(o, ResponseBodies(AsteroidBodies, sent[u].ast,
                                            DefaultAsteroidMagnitude))
    /\ upc' = [upc EXCEPT ![u] = "comets"]
    /\ sent' = [sent EXCEPT ![u].com = LoadQuery(cometMaxMagnitude)]
    /\ UNCHANGED <<container, location, asteroidMaxMagnitude,
                   cometMaxMagnitude, latest>>
    /\ UNCHANGED exRenderer

\* The comet request of update() u ends: loadComets() finishes, whatever
\* the outcome, and update() calls render().
CometResponse(u) ==
    /\ upc[u] = "comets"
    /\ \E o \in Outcomes :
          /\ uout' = [uout EXCEPT
                         ![u] = Kept(u, [@ EXCEPT !.com = o], NoOutcome)]
          /\ celestialData' =
                AfterLoad(o, ResponseBodies(CometBodies, sent[u].com,
                                            DefaultCometMagnitude))
    /\ sent' = [sent EXCEPT ![u] = Kept(u, @, NoRequests)]
    /\ container' = Render(celestialData', container)
    /\ upc' = [upc EXCEPT ![u] = "done"]
    /\ UNCHANGED <<location, asteroidMaxMagnitude, cometMaxMagnitude, latest>>
    /\ UNCHANGED exRenderer

NextRenderer ==
    \/ \E u \in Updates : StartUpdate(u)
    \/ \E u \in Updates : SetMagnitudeFilters(u)
    \/ \E u \in Updates : SkyResponse(u)
    \/ \E u \in Updates : AsteroidResponse(u)
    \/ \E u \in Updates : CometResponse(u)

SpecRenderer == InitRenderer /\ [][NextRenderer]_vars

\* ------------------------------------------------------------------------
\* LocationDialog: show(), selectLocation(), applyManualCoordinates()
\* ------------------------------------------------------------------------
\* Input strings, as character codes.
\* "48"
Str48 == <<52, 56>>
\* "91"
Str91 == <<57, 49>>
\* "-91"
StrMinus91 == <<45, 57, 49>>
\* "16"
Str16 == <<49, 54>>
\* "181"
Str181 == <<49, 56, 49>>
\* "-181"
StrMinus181 == <<45, 49, 56, 49>>
\* "250"
Str250 == <<50, 53, 48>>
\* "0"
Str0 == <<48>>
\* "abc"
StrAbc == <<97, 98, 99>>
\* "90"
Str90 == <<57, 48>>
\* "-180"
StrMinus180 == <<45, 49, 56, 48>>
\* "-34"
StrMinus34 == <<45, 51, 52>>
\* "151"
Str151 == <<49, 53, 49>>

\* The digits at the head of s, read as a number continuing acc.
RECURSIVE DigitsValue(_, _)
DigitsValue(s, acc) ==
    IF s # <<>> /\ IsDigit(Head(s))
    THEN DigitsValue(Tail(s), 10 * acc + (Head(s) - 48))
    ELSE acc

\* parseFloat(s): leading blanks are skipped, then an optional sign and
\* the longest run of digits are read; NaN when no digit is there.
ParseFloat(s) ==
    LET t == SkipSpaces(s)
        negative == t # <<>> /\ Head(t) = 45
        signed == t # <<>> /\ Head(t) \in {43, 45}
        d == IF signed THEN Tail(t) ELSE t
    IN  IF d = <<>> \/ ~IsDigit(Head(d))
        THEN NaN
        ELSE Number(IF negative THEN -DigitsValue(d, 0) ELSE DigitsValue(d, 0))

RECURSIVE Digits(_)
Digits(n) ==
    IF n < 10 THEN <<48 + n>> ELSE Digits(n \div 10) \o <<48 + (n % 10)>>

\* `${x}` of a number
NumberToString(x) ==
    IF x.nan THEN <<78, 97, 78>>
    ELSE IF x.val < 0 THEN <<45>> \o Digits(-x.val)
    ELSE Digits(x.val)

\* s is a valid floating-point number: an optional "-" and digits only.
IsValidNumber(s) ==
    LET d == IF s # <<>> /\ Head(s) = 45 THEN Tail(s) ELSE s
    IN  d # <<>> /\ \A i \in 1..Len(d) : IsDigit(d[i])

\* The value of an <input type="number"> whose content is s: the content
\* if it is a valid number, the empty string otherwise.
NumberInputValue(s) == IF IsValidNumber(s) THEN s ELSE <<>>

\* What the user types into the three number inputs.
TypedLatitudes == {Str48, Str90, Str91, StrMinus91, StrAbc}

TypedLongitudes == {Str16, StrMinus180, Str181, StrMinus181, StrAbc}

TypedElevations == {Str250, Str0, StrAbc}

TypedNames == {"", "Home"}

\* A geocoder search result shown in the dialog.
SearchResults == {[lat |-> StrMinus34, lon |-> Str151, display_name |-> "Sydney"]}

InitDialog ==
    /\ SkyQuiet
    /\ SettingsQuiet
    /\ PhotometryQuiet
    /\ DrawQuiet
    /\ CancelQuiet
    /\ EventsQuiet
    /\ SelectQuiet
    /\ LoaderQuiet
    /\ grace = GraceHours
    /\ RendererQuiet
    /\ DialogQuiet

\* show(): the dialog is built with the inputs filled from currentLocation.
Show ==
    /\ dlgOpen' = TRUE
    /\ latInput' = NumberInputValue(NumberToString(currentLocation.lat))
    /\ lonInput' = NumberInputValue(NumberToString(currentLocation.lon))
    /\ elevInput' =
          NumberInputValue(NumberToString(
              IF currentLocation.elevation.nan \/ currentLocation.elevation.val = 0
              THEN Number(VIENNA_ELEVATION)
              ELSE currentLocation.elevation))
    /\ nameInput' = currentLocation.name
    /\ dlgOp' = "show"
    /\ alerted' = FALSE
    /\ changed' = NoLocation
    /\ UNCHANGED currentLocation
    /\ UNCHANGED exDialog

\* removeDialog(): the close button or a click on the overlay.
RemoveDialog ==
    /\ dlgOpen
    /\ dlgOpen' = FALSE
    /\ latInput' = <<>>
    /\ lonInput' = <<>>
    /\ elevInput' = <<>>
    /\ nameInput' = ""
    /\ dlgOp' = "removeDialog"
    /\ alerted' = FALSE
    /\ changed' = NoLocation
    /\ UNCHANGED currentLocation
    /\ UNCHANGED exDialog

\* The user fills in the manual coordinates.
TypeCoordinates ==
    /\ dlgOpen
    /\ \E la \in TypedLatitudes, lo \in TypedLongitudes,
          el \in TypedElevations, nm \in TypedNames :
          /\ latInput' = NumberInputValue(la)
          /\ lonInput' = NumberInputValue(lo)
          /\ elevInput' = NumberInputValue(el)
          /\ nameInput' = nm
    /\ dlgOp' = "type"
    /\ alerted' = FALSE
    /\ changed' = NoLocation
    /\ UNCHANGED <<currentLocation, dlgOpen>>
    /\ UNCHANGED exDialog

\* selectLocation(location): a click on a search result.
SelectLocation ==
    /\ dlgOpen
    /\ \E place \in SearchResults :
          LET chosen == [lat |-> ParseFloat(place.lat),
                         lon |-> ParseFloat(place.lon),
                         elevation |-> Number(VIENNA_ELEVATION),
                         name |-> place.display_name]
          IN  /\ currentLocation' = chosen
              /\ latInput' = NumberInputValue(NumberToString(chosen.lat))
              /\ lonInput' = NumberInputValue(NumberToString(chosen.lon))
              /\ elevInput' = NumberInputValue(NumberToString(chosen.elevation))
              /\ nameInput' = chosen.name
              /\ changed' = chosen
    /\ dlgOp' = "selectLocation"
    /\ alerted' = FALSE
    /\ UNCHANGED dlgOpen
    /\ UNCHANGED exDialog

\* applyManualCoordinates() without its validation of lat and lon
ApplyUnvalidated ==
    /\ dlgOpen
    /\ LET lat == ParseFloat(latInput)
           lon == ParseFloat(lonInput)
           elevation == ParseFloat(elevInput)
           name == IF nameInput = "" THEN "Custom Location" ELSE nameInput
           validElevation == IF ~elevation.nan THEN elevation
                             ELSE Number(VIENNA_ELEVATION)
           applied == [lat |-> lat, lon |-> lon,
                       elevation |-> validElevation, name |-> name]
       IN  /\ currentLocation' = applied
           /\ changed' = applied
           /\ alerted' = FALSE
    /\ dlgOp' = "applyManualCoordinates"
    /\ UNCHANGED <<dlgOpen, latInput, lonInput, elevInput, nameInput>>
    /\ UNCHANGED exDialog

\* applyManualCoordinates(): a click on the apply button.
ApplyManualCoordinates ==
    /\ dlgOpen
    /\ LET lat == ParseFloat(latInput)
           lon == ParseFloat(lonInput)
           elevation == ParseFloat(elevInput)
           name == IF nameInput = "" THEN "Custom Location" ELSE nameInput
       IN  IF \/ lat.nan \/ lon.nan
              \/ lat.val < -90 \/ lat.val > 90
              \/ lon.val < -180 \/ lon.val > 180
           THEN /\ alerted' = TRUE
                /\ changed' = NoLocation
                /\ UNCHANGED currentLocation
           ELSE LET validElevation ==
                        IF ~elevation.nan THEN elevation
                        ELSE Number(VIENNA_ELEVATION)
                    applied == [lat |-> lat, lon |-> lon,
                                elevation |-> validElevation, name |-> name]
                IN  /\ currentLocation' = applied
                    /\ changed' = applied
                    /\ alerted' = FALSE
    /\ dlgOp' = "applyManualCoordinates"
    /\ UNCHANGED <<dlgOpen, latInput, lonInput, elevInput, nameInput>>
    /\ UNCHANGED exDialog

NextDialog ==
    \/ Show
    \/ RemoveDialog
    \/ TypeCoordinates
    \/ SelectLocation
    \/ ApplyManualCoordinates

SpecDialog == InitDialog /\ [][NextDialog]_vars

\* ------------------------------------------------------------------------
\* findEvents(target, observer, dayWindow) and showObjectDialog(obj)
\* ------------------------------------------------------------------------
\* Times t are minutes after the start of the window, which is 00:00 UTC of
\* the local date and lasts two days.
MinutesPerDay == 24 * 60

WindowMinutes == 2 * MinutesPerDay

\* The altitude and the hour angle are sampled at this step (minutes).
SampleStep == 60

\* The target comes back to the meridian after one sidereal day (minutes).
SiderealDay == 1436

\* Distance between the first upper transits tried (minutes).
PhaseStep == 673

\* UTC offsets of the observer, minutes east of Greenwich: New York,
\* Greenwich, Vienna in summer.
UtcOffsets == {-300, 0, 120}

\* Altitude curves (degrees): mean + amp at the upper transit, mean - amp
\* at the lower one. Through the zenith and never down; never up; rising
\* and setting; at the celestial pole, the same altitude all day.
AltitudeCurves ==
    {[mean |-> 60, amp |-> 30], [mean |-> -40, amp |-> 30],
     [mean |-> 10, amp |-> 40], [mean |-> 48, amp |-> 0]}

Phases == {(k * PhaseStep) % SiderealDay : k \in 0..MaxPhases}

Targets ==
    {[mean |-> c.mean, amp |-> c.amp, phase |-> ph] :
        c \in AltitudeCurves, ph \in Phases}

\* Minutes since the last upper transit.
SinceUpperTransit(target, t) == (t - target.phase) % SiderealDay

\* Minutes to the nearest upper transit, before or after.
FromUpperTransit(target, t) ==
    LET s == SinceUpperTransit(target, t)
    IN  IF s <= SiderealDay - s THEN s ELSE SiderealDay - s

\* Altitude of the target at t, in whole degrees.
Altitude(target, t) ==
    target.mean + target.amp
        - (4 * target.amp * FromUpperTransit(target, t)) \div SiderealDay

\* risings_and_settings: TRUE while the target is above the horizon.
AboveHorizon(target, t) == Altitude(target, t) > 0

\* meridian_transits: TRUE from the upper transit to the lower transit.
WestOfMeridian(target, t) ==
    SinceUpperTransit(target, t) < SiderealDay \div 2

Sampled(f, target, t) ==
    IF f = "horizon" THEN AboveHorizon(target, t)
    ELSE WestOfMeridian(target, t)

\* Bisection: the first minute in (lo, hi] at which f has its value at hi.
RECURSIVE Refine(_, _, _, _)
Refine(f, target, lo, hi) ==
    IF hi - lo <= 1 THEN hi
    ELSE LET mid == (lo + hi) \div 2
         IN  IF Sampled(f, target, mid) = Sampled(f, target, hi)
             THEN Refine(f, target, lo, mid)
             ELSE Refine(f, target, mid, hi)

Samples == {k * SampleStep : k \in 0..((WindowMinutes \div SampleStep) - 1)}

\* find_discrete: the instants at which f changes between two samples,
\* with the value f takes there.
FindDiscrete(f, target) ==
    {[t |-> Refine(f, target, lo, lo + SampleStep),
      value |-> Sampled(f, target, lo + SampleStep)] :
        lo \in {s \in Samples :
                   Sampled(f, target, s) # Sampled(f, target, s + SampleStep)}}

Earliest(found) == CHOOSE e \in found : \A o \in found : e.t <= o.t

\* The requester's local calendar day, in minutes of the window.
LocalDayStart(offset) == 0 - offset

OnLocalDay(t, offset) ==
    /\ LocalDayStart(offset) <= t
    /\ t < LocalDayStart(offset) + MinutesPerDay

\* The first transit of the local calendar day, whichever it is.
SelectFirstTransit(target, offset, transits) ==
    LET onDay == {e \in transits : OnLocalDay(e.t, offset)}
    IN  IF onDay = {} THEN {} ELSE {Earliest(onDay)}

\* Transit selection rule: of the transits found that fall on the local
\* calendar day, the upper transit with the greatest altitude; lower
\* transits are discarded.
SelectTransit(target, offset, transits) ==
    LET onDay == {e \in transits : OnLocalDay(e.t, offset)}
        upper == {e \in onDay : e.value}
        best  == {e \in upper :
                     \A o \in upper :
                         Altitude(target, o.t) <= Altitude(target, e.t)}
    IN  IF upper = {} THEN {} ELSE {Earliest(best)}

\* Local time of day of t, in minutes.
LocalClock(t, offset) == (t + offset) % MinutesPerDay

TwoDigits(n) == <<48 + (n \div 10), 48 + (n % 10)>>

\* "HH:MM"
FormatHHMM(m) == TwoDigits(m \div 60) \o <<58>> \o TwoDigits(m % 60)

\* The backend stores strings like "12:34 Uhr".
StoreTime(t, offset) ==
    TimeString(FormatHHMM(LocalClock(t, offset)) \o <<32, 85, 104, 114>>)

StoredTimeOf(found, offset) ==
    IF found = {} THEN NullTime ELSE StoreTime(Earliest(found).t, offset)

\* The window start counts as a rising when the target is up there.
RisingsFromWindowStart(target) ==
    {e \in FindDiscrete("horizon", target) : e.value}
        \cup (IF AboveHorizon(target, 0)
              THEN {[t |-> 0, value |-> TRUE]} ELSE {})

\* The risings found in the window.
Risings(target) == {e \in FindDiscrete("horizon", target) : e.value}

\* The settings found in the window.
Settings(target) == {e \in FindDiscrete("horizon", target) : ~e.value}

FindEventsResult(target, offset) ==
    [rise    |-> StoredTimeOf(Risings(target), offset),
     set     |-> StoredTimeOf(Settings(target), offset),
     transit |-> StoredTimeOf(SelectTransit(target, offset,
                                  FindDiscrete("meridian", target)), offset)]

\* The tables of i18n.js for the keys of the time lines. The key
\* invalid_coordinates, which the location dialog asks for, is in neither
\* table.
I18n ==
    [de |-> [rise_time |-> <<65, 117, 102, 103, 97, 110, 103>>, set_time |-> <<85, 110, 116, 101, 114, 103, 97, 110, 103>>,
             transit_time |-> <<72, 246, 99, 104, 115, 116, 115, 116, 97, 110, 100>>, hour |-> <<85, 104, 114>>],
     en |-> [rise_time |-> <<82, 105, 115, 101>>, set_time |-> <<83, 101, 116>>,
             transit_time |-> <<84, 114, 97, 110, 115, 105, 116>>, hour |-> <<>>]]

KeyText ==
    [rise_time |-> <<114, 105, 115, 101, 95, 116, 105, 109, 101>>, set_time |-> <<115, 101, 116, 95, 116, 105, 109, 101>>,
     transit_time |-> <<116, 114, 97, 110, 115, 105, 116, 95, 116, 105, 109, 101>>, hour |-> <<104, 111, 117, 114>>,
     invalid_coordinates |-> <<105, 110, 118, 97, 108, 105, 100, 95, 99, 111, 111, 114, 100, 105, 110, 97, 116, 101, 115>>]

\* i18n[lang] && i18n[lang][key]: the table exists and its entry for the
\* key is a string that is not empty
Truthy(lang, key) ==
    /\ lang \in DOMAIN I18n
    /\ key \in DOMAIN I18n[lang]
    /\ I18n[lang][key] # <<>>

\* t(key): the text of the current language if it is truthy, else the
\* English one if it is truthy, else the key.
T(key) ==
    IF Truthy(currentLanguage, key) THEN I18n[currentLanguage][key]
    ELSE IF Truthy("en", key) THEN I18n.en[key]
    ELSE KeyText[key]

Languages == {"de", "en"}

\* the languages setLanguage() is called with
RequestedLanguages == Languages \union {"fr"}

\* `${t(key)}: ${time} ${t('hour')}`, pushed when the time is truthy.
TimeLine(key, time) ==
    IF time.null \/ time.text = <<>> THEN <<>>
    ELSE T(key) \o <<58, 32>> \o time.text \o <<32>> \o T("hour")

InitEvents ==
    /\ SkyQuiet
    /\ SettingsQuiet
    /\ PhotometryQuiet
    /\ DrawQuiet
    /\ CancelQuiet
    /\ SelectQuiet
    /\ LoaderQuiet
    /\ grace = GraceHours
    /\ RendererQuiet
    /\ DialogQuiet
    /\ evTarget \in Targets
    /\ evOffset \in UtcOffsets
    /\ evPc = "idle"
    /\ events = NoEvents
    /\ currentLanguage = "de"
    /\ dialogInfo = NoDialogInfo

\* findEvents(target, observer, dayWindow)
FindEvents ==
    /\ evPc = "idle"
    /\ events' = FindEventsResult(evTarget, evOffset)
    /\ evPc' = "found"
    /\ UNCHANGED <<evTarget, evOffset, currentLanguage, dialogInfo>>
    /\ UNCHANGED exEvents

\* setLanguage(lang): the language changes if i18n has a table for it
\* (true is returned); otherwise nothing changes (false is returned).
SetLanguage(lang) ==
    /\ currentLanguage' = IF lang \in DOMAIN I18n THEN lang ELSE currentLanguage
    /\ UNCHANGED <<evTarget, evOffset, evPc, events, dialogInfo>>
    /\ UNCHANGED exEvents

\* showObjectDialog(obj) for the body the events were found for.
ShowObjectDialog ==
    /\ evPc = "found"
    /\ dialogInfo' = [rise    |-> TimeLine("rise_time", events.rise),
                      set     |-> TimeLine("set_time", events.set),
                      transit |-> TimeLine("transit_time", events.transit)]
    /\ UNCHANGED <<evTarget, evOffset, evPc, events, currentLanguage>>
    /\ UNCHANGED exEvents

NextEvents ==
    \/ FindEvents
    \/ \E lang \in RequestedLanguages : SetLanguage(lang)
    \/ ShowObjectDialog

SpecEvents == InitEvents /\ [][NextEvents]_vars

\* ------------------------------------------------------------------------
\* render(), drawCelestialObject(obj), shiftHorizonLeft(), shiftHorizonRight()
\* ------------------------------------------------------------------------
\* Altitudes (whole degrees) and azimuths of the bodies of a response.
BodyAltitudes == {-90, -45, -10, -3, -2, -1, 0, 30, 90}

BodyAzimuths == {0, 45, 86, 87, 90, 180, 270, 271, 272, 359}

SkyBodyInputs ==
    [altitude : BodyAltitudes, azimuth : BodyAzimuths, visible : BOOLEAN]

\* a % n of JavaScript: the sign of the result is the sign of a.
JsRemainder(a, n) == IF a >= 0 THEN a % n ELSE 0 - ((0 - a) % n)

\* Math.round(num / den) for den > 0: halves go up.
MathRound(num, den) == (2 * num + den) \div (2 * den)

\* The early return of drawCelestialObject is never taken.
NeverHidden(obj, showBelow) == FALSE

\* drawCelestialObject returns at once for a body below the horizon when
\* such bodies are not to be shown.
HiddenBelowHorizon(obj, showBelow) == obj.altitude < 0 /\ ~showBelow

\* The row of an altitude: 0 to HORIZON_ROW above the horizon, HORIZON_ROW
\* to SKY_HEIGHT - 1 below it.
DisplayRow(altitude) ==
    IF altitude >= 0
    THEN MathRound(HORIZON_ROW * 90 - altitude * HORIZON_ROW, 90)
    ELSE MathRound(HORIZON_ROW * 90
                       + (0 - altitude) * (SKY_HEIGHT - HORIZON_ROW - 1), 90)

NormalizedAzimuth(azimuth, shift) == JsRemainder(azimuth - shift + 360, 360)

\* The column of an azimuth: 90 (east) to 270 (west) over the whole width.
DisplayCol(azimuth, shift) ==
    MathRound((NormalizedAzimuth(azimuth, shift) - 90) * (SKY_WIDTH - 2), 180)
        + 1

\* drawCelestialObject(obj): the cell written, if one is.
DrawCelestialObject(obj, shift, showBelow) ==
    IF HiddenBelowHorizon(obj, showBelow) THEN [NotRendered EXCEPT !.rendered = TRUE]
    ELSE LET row == DisplayRow(obj.altitude)
             col == DisplayCol(obj.azimuth, shift)
         IN  [rendered |-> TRUE,
              drawn |-> /\ row >= 0 /\ row < SKY_HEIGHT
                        /\ col >= 0 /\ col < SKY_WIDTH,
              row |-> row, col |-> col]

\* render(): the bodies flagged visible are drawn.
RenderBody(obj, shift, showBelow) ==
    IF obj.visible THEN DrawCelestialObject(obj, shift, showBelow)
    ELSE [NotRendered EXCEPT !.rendered = TRUE]

\* the azimuths of the letters N, O, S, W of drawHorizon()
CardinalAzimuths == {0, 90, 180, 270}

\* the column of a cardinal letter: the whole circle over the whole width
CardinalCol(azimuth, shift) ==
    MathRound(JsRemainder(azimuth - shift + 360, 360) * (SKY_WIDTH - 2), 360)
        + 1

\* the letters drawHorizon() writes, each with its column: a letter is
\* written only if its column is in the grid
Cardinals(shift) ==
    [a \in {az \in CardinalAzimuths :
                /\ CardinalCol(az, shift) >= 0
                /\ CardinalCol(az, shift) < SKY_WIDTH} |->
        CardinalCol(a, shift)]

\* the altitudes marked on the left edge
AltitudeMarks == {90, 60, 30, 0, -30, -60, -90}

\* the row of an altitude mark, MIN_ALTITUDE = -90 and MAX_ALTITUDE = 90
MarkRow(alt) == MathRound((90 - alt) * (SKY_HEIGHT - 1), 180)

\* Math.abs(alt).toString().length for the marks
MarkDigits(alt) == IF alt = 0 THEN 1 ELSE 2

\* the cells drawHorizon() writes: the horizon line with its corners, the
\* cardinal letters, and the sign and digits of each altitude mark that is
\* not on the horizon row
DrawHorizon(shift) ==
    {<<HORIZON_ROW, col>> : col \in 0 .. SKY_WIDTH - 1}
        \union {<<HORIZON_ROW, Cardinals(shift)[a]>> : a \in DOMAIN Cardinals(shift)}
        \union UNION {
              {<<MarkRow(alt), 0>>}
                  \union {<<MarkRow(alt), i + 1>> :
                              i \in {j \in 0 .. MarkDigits(alt) - 1 : j + 1 < SKY_WIDTH}} :
              alt \in {m \in AltitudeMarks :
                          /\ MarkRow(m) >= 0 /\ MarkRow(m) < SKY_HEIGHT
                          /\ MarkRow(m) # HORIZON_ROW}}

\* obj.altitude.toFixed(1).length for whole degrees
FixedLength(altitude) ==
    LET a == IF altitude < 0 THEN 0 - altitude ELSE altitude
    IN  (IF altitude < 0 THEN 1 ELSE 0) + (IF a >= 10 THEN 2 ELSE 1) + 2

\* the length of `${obj.name} (${altitudeStr}\u00b0)`
LabelLength(obj, len) == len + 2 + FixedLength(obj.altitude) + 2

\* the row under the body without the limit
RowBelow(row) == row + 1

\* labelRow: the row under the body, the last row at most
LabelRow(row) == IF row + 1 < SKY_HEIGHT - 1 THEN row + 1 ELSE SKY_HEIGHT - 1

\* the cells of the label of the selected body drawn at row, col
LabelCells(obj, len, row, col) ==
    LET half == LabelLength(obj, len) \div 2
        startCol == IF col - half > 0 THEN col - half ELSE 0
    IN  {<<LabelRow(row), startCol + i>> :
            i \in {j \in 0 .. LabelLength(obj, len) - 1 : startCol + j < SKY_WIDTH}}

\* the cells render() writes: those of drawHorizon(), the cell of the body
\* if it is drawn, and its label if it is the selected one
RenderCells(obj, len, chosen, shift, showBelow) ==
    LET body == RenderBody(obj, shift, showBelow)
    IN  DrawHorizon(shift)
            \union (IF body.drawn THEN {<<body.row, body.col>>} ELSE {})
            \union (IF body.drawn /\ chosen
                    THEN LabelCells(obj, len, body.row, body.col) ELSE {})

\* the lengths of the names of the bodies: "Sun", "67P/Churyumov-Gerasimenko"
NameLengths == {3, 25}

\* the shifts found in the stored settings: none, a full turn either way
StoredShifts == {-360, 0, 360}

\* The shifts are followed up to MaxShifts steps from a stored shift.
WithinShifts(shift) ==
    \E stored \in StoredShifts :
        /\ shift - stored <= 5 * MaxShifts
        /\ stored - shift <= 5 * MaxShifts

\* After the constructor: the shift is read from the settings and initSky()
\* has made the grid and drawn the horizon.
InitDraw ==
    /\ SkyQuiet
    /\ SettingsQuiet
    /\ PhotometryQuiet
    /\ SelectQuiet
    /\ LoaderQuiet
    /\ grace = GraceHours
    /\ RendererQuiet
    /\ DialogQuiet
    /\ EventsQuiet
    /\ CancelQuiet
    /\ skyBody \in SkyBodyInputs
    /\ showBelowHorizon \in BOOLEAN
    /\ isSelected \in BOOLEAN
    /\ nameLength \in NameLengths
    /\ horizontalShift \in StoredShifts
    /\ cardinals = Cardinals(horizontalShift)
    /\ cells = DrawHorizon(horizontalShift)
    /\ sky = NotRendered

\* updateCelestialData(data): render()
RenderSky ==
    /\ sky' = RenderBody(skyBody, horizontalShift, showBelowHorizon)
    /\ cardinals' = Cardinals(horizontalShift)
    /\ cells' = RenderCells(skyBody, nameLength, isSelected, horizontalShift,
                            showBelowHorizon)
    /\ UNCHANGED <<skyBody, showBelowHorizon, isSelected, nameLength,
                   horizontalShift>>
    /\ UNCHANGED exDraw

\* shiftHorizonLeft()
ShiftHorizonLeft ==
    /\ WithinShifts(horizontalShift - 5)
    /\ horizontalShift' = horizontalShift - 5
    /\ sky' = RenderBody(skyBody, horizontalShift', showBelowHorizon)
    /\ cardinals' = Cardinals(horizontalShift')
    /\ cells' = RenderCells(skyBody, nameLength, isSelected, horizontalShift',
                            showBelowHorizon)
    /\ UNCHANGED <<skyBody, showBelowHorizon, isSelected, nameLength>>
    /\ UNCHANGED exDraw

\* shiftHorizonRight()
ShiftHorizonRight ==
    /\ WithinShifts(horizontalShift + 5)
    /\ horizontalShift' = horizontalShift + 5
    /\ sky' = RenderBody(skyBody, horizontalShift', showBelowHorizon)
    /\ cardinals' = Cardinals(horizontalShift')
    /\ cells' = RenderCells(skyBody, nameLength, isSelected, horizontalShift',
                            showBelowHorizon)
    /\ UNCHANGED <<skyBody, showBelowHorizon, isSelected, nameLength>>
    /\ UNCHANGED exDraw

NextDraw ==
    \/ RenderSky
    \/ ShiftHorizonLeft
    \/ ShiftHorizonRight

SpecDraw == InitDraw /\ [][NextDraw]_vars

\* ------------------------------------------------------------------------
\* asteroid_apparent_magnitude(H, G, r, delta, phase_angle_deg)
\* ------------------------------------------------------------------------
\* H in tenths of a magnitude, G in hundredths, r and delta in half AU, the
\* phase angle in tenths of a degree, V in thousandths of a magnitude.
AbsoluteMagnitudes == {33, 50, 120}

SlopeParameters == {15, 50}

Distances == 1..MaxDistance

PhaseAngles == {0, 50, 900, 1790, 1800}

\* The phase angle is clamped at 179.9 degrees.
ClampedPhase(alpha) == IF alpha > 1799 THEN 1799 ELSE alpha

\* 5 log10(p / 4), in thousandths, for p = 1, 2, ...: r delta in quarter
\* AU squared.
FiveLog10 ==
    <<-3010, -1505, -625, 0, 485, 880, 1215, 1505, 1761, 1990,
      2197, 2386, 2559, 2720, 2870, 3010, 3142, 3266, 3383, 3495,
      3601, 3702, 3798, 3891, 3979, 4065, 4147, 4225, 4302, 4375,
      4447, 4515, 4582, 4647, 4710, 4771, 4831, 4889, 4945, 5000,
      5054, 5106, 5157, 5207, 5256, 5303, 5350, 5396, 5441>>

\* -2.5 log10((1 - G) Phi1 + G Phi2), in thousandths, with
\* Phi1 = exp(-3.33 tan(alpha/2)^0.63), Phi2 = exp(-1.87 tan(alpha/2)^1.22).
PhaseTerm(G, alpha) ==
    LET byAngle == IF G = 15
                   THEN [a \in {0, 50, 900, 1790, 1799} |->
                            CASE a = 0 -> 0 [] a = 50 -> 421 [] a = 900 -> 3178
                              [] a = 1790 -> 71861 [] a = 1799 -> 305974]
                   ELSE [a \in {0, 50, 900, 1790, 1799} |->
                            CASE a = 0 -> 0 [] a = 50 -> 250 [] a = 900 -> 2556
                              [] a = 1790 -> 72437 [] a = 1799 -> 306551]
    IN  byAngle[ClampedPhase(alpha)]

\* The distance term with its sign reversed.
NearerIsFainter(H, G, r, delta, alpha) ==
    H * 100 - FiveLog10[r * delta] + PhaseTerm(G, alpha)

\* V = H + 5 log10(r delta) - 2.5 log10((1 - G) Phi1 + G Phi2)
AsteroidApparentMagnitude(H, G, r, delta, alpha) ==
    H * 100 + FiveLog10[r * delta] + PhaseTerm(G, alpha)

InitPhotometry ==
    /\ SkyQuiet
    /\ SettingsQuiet
    /\ SelectQuiet
    /\ LoaderQuiet
    /\ grace = GraceHours
    /\ RendererQuiet
    /\ DialogQuiet
    /\ EventsQuiet
    /\ CancelQuiet
    /\ DrawQuiet
    /\ amH \in AbsoluteMagnitudes
    /\ amG \in SlopeParameters
    /\ amR \in Distances
    /\ amDelta \in Distances
    /\ amAlpha \in PhaseAngles
    /\ amV = NoMagnitude
    /\ amPrev = NoCall

\* The call with the arguments H, r, delta and the G and phase angle of
\* the row.
Call(H, r, delta) ==
    /\ amH' = H
    /\ amR' = r
    /\ amDelta' = delta
    /\ amV' = [known |-> TRUE,
               V |-> AsteroidApparentMagnitude(H, amG, r, delta, amAlpha)]
    /\ amPrev' = IF amV.known
                 THEN [called |-> TRUE, H |-> amH, r |-> amR,
                       delta |-> amDelta, V |-> amV.V]
                 ELSE NoCall
    /\ UNCHANGED <<amG, amAlpha>>
    /\ UNCHANGED exPhotometry

\* The first call.
Compute ==
    /\ ~amV.known
    /\ Call(amH, amR, amDelta)

\* The same row with another absolute magnitude.
ComputeForH(H) ==
    /\ amV.known
    /\ H # amH
    /\ Call(H, amR, amDelta)

\* The same row at another heliocentric distance.
ComputeForR(r) ==
    /\ amV.known
    /\ r # amR
    /\ Call(amH, r, amDelta)

\* The same row at another distance from the observer.
ComputeForDelta(delta) ==
    /\ amV.known
    /\ delta # amDelta
    /\ Call(amH, amR, delta)

NextPhotometry ==
    \/ Compute
    \/ \E H \in AbsoluteMagnitudes : ComputeForH(H)
    \/ \E r \in Distances : ComputeForR(r)
    \/ \E delta \in Distances : ComputeForDelta(delta)

SpecPhotometry == InitPhotometry /\ [][NextPhotometry]_vars

\* ------------------------------------------------------------------------
\* SettingsManager (setLocation, syncSettingsToServer) and the update() of
\* the renderer that sends the observer's location with its requests
\* ------------------------------------------------------------------------
\* what the renderer with a location leaves alone
exLocatedUpdate == <<selectVars, loaderVars, dialogVars, eventVars, cancelVars, drawVars, photometryVars, skyVars>>

\* what the selection, the dialogs and the clicks leave alone
exSky == <<selectVars, loaderVars, dialogVars, eventVars, cancelVars, photometryVars, settingsVars>>

\* the fields of the renderer update() does not touch
rendererRest ==
    <<upc, uout, asteroidMaxMagnitude, cometMaxMagnitude, sent, latest>>

\* the bright minor planets the bright-asteroid endpoint knows
BrightAsteroidBodies ==
    [n \in {"Ceres"} |->
        [type |-> "asteroid", visible |-> TRUE, magnitude |-> 7]]

\* `?lat=${place.latitude}&lon=${place.longitude}&elevation=${place.elevation}`
ObserverQuery(place) ==
    [sent |-> TRUE, max_magnitude |-> 0, hasObserver |-> TRUE,
     lat |-> place.latitude, lon |-> place.longitude,
     elevation |-> place.elevation]

\* the observer a sent request names
Observer(q) ==
    [latitude |-> q.lat, longitude |-> q.lon, elevation |-> q.elevation]

\* the query of loadAsteroids() and loadComets(): the observer is
\* this.location, the location the constructor read from the settings
ThisLocationQuery == ObserverQuery(location)

\* After construction: the settings are loaded (serverSynced is false), the
\* renderer copied their location into this.location, and its first
\* update() awaits the sky request.
InitSettings ==
    /\ SkyQuiet
    /\ SelectQuiet
    /\ LoaderQuiet
    /\ grace = GraceHours
    /\ DialogQuiet
    /\ EventsQuiet
    /\ CancelQuiet
    /\ DrawQuiet
    /\ PhotometryQuiet
    /\ settingsLocation \in StoredLocations
    /\ serverSynced = FALSE
    /\ syncPc = "idle"
    /\ syncOutcome = "none"
    /\ location = settingsLocation
    /\ celestialData = NoData
    /\ container = EmptyContainer
    /\ upc = [u \in Updates |-> "idle"]
    /\ uout = [u \in Updates |-> NoOutcome]
    /\ asteroidMaxMagnitude = DefaultAsteroidMagnitude
    /\ cometMaxMagnitude = DefaultCometMagnitude
    /\ sent = [u \in Updates |-> NoRequests]
    /\ latest = 0
    /\ updatePc = "sky"
    /\ updateLocation = settingsLocation
    /\ requests = [NoUpdateRequests EXCEPT !.sky = ObserverQuery(settingsLocation)]

\* setLocation(latitude, longitude, elevation, locationName), called with
\* numbers: the location is stored and saved, and the request that sends
\* it to the server is awaited.
SetLocation ==
    /\ syncPc = "idle"
    /\ \E place \in StoredLocations : settingsLocation' = place
    /\ syncPc' = "setLocation"
    /\ syncOutcome' = "none"
    /\ UNCHANGED <<serverSynced, updatePc, updateLocation, requests>>
    /\ UNCHANGED exSettings

\* The request of setLocation() ends: serverSynced becomes true on an ok
\* response; any other response, or a rejected fetch, is logged.
SetLocationResponse ==
    /\ syncPc = "setLocation"
    /\ \E o \in Outcomes :
          /\ syncOutcome' = o
          /\ serverSynced' = IF o = "ok" THEN TRUE ELSE serverSynced
    /\ syncPc' = "idle"
    /\ UNCHANGED <<settingsLocation, updatePc, updateLocation, requests>>
    /\ UNCHANGED exSettings

\* syncSettingsToServer(): the asteroid settings are sent first.
SyncSettingsToServer ==
    /\ syncPc = "idle"
    /\ syncPc' = "sync_asteroids"
    /\ syncOutcome' = "none"
    /\ UNCHANGED <<settingsLocation, serverSynced, updatePc, updateLocation,
                   requests>>
    /\ UNCHANGED exSettings

\* The asteroid request of syncSettingsToServer() ends: a rejected fetch is
\* caught and false is returned; otherwise the comet settings are sent.
SyncAsteroidResponse ==
    /\ syncPc = "sync_asteroids"
    /\ \E o \in Outcomes :
          /\ syncOutcome' = o
          /\ syncPc' = IF o = "rejected" THEN "idle" ELSE "sync_comets"
    /\ UNCHANGED <<settingsLocation, serverSynced, updatePc, updateLocation,
                   requests>>
    /\ UNCHANGED exSettings

\* The comet request of syncSettingsToServer() ends: serverSynced becomes
\* true if both responses are ok; otherwise false is returned.
SyncCometResponse ==
    /\ syncPc = "sync_comets"
    /\ \E o \in Outcomes :
          /\ syncOutcome' = IF o = "ok" THEN syncOutcome ELSE o
          /\ serverSynced' = IF o = "ok" /\ syncOutcome = "ok"
                             THEN TRUE ELSE serverSynced
    /\ syncPc' = "idle"
    /\ UNCHANGED <<settingsLocation, updatePc, updateLocation, requests>>
    /\ UNCHANGED exSettings

\* update() is called: the location is read from the settings and the sky
\* request is sent with it.
UpdateWithLocation ==
    /\ updatePc = "idle"
    /\ updateLocation' = settingsLocation
    /\ requests' = [NoUpdateRequests EXCEPT
                       !.sky = ObserverQuery(settingsLocation)]
    /\ updatePc' = "sky"
    /\ UNCHANGED <<settingsLocation, serverSynced, syncPc, syncOutcome>>
    /\ UNCHANGED exSettings

\* The sky request ends. On success celestialData is replaced and
\* loadAsteroids() sends its request; otherwise the catch block of update()
\* writes the error text.
LocatedSkyResponse ==
    /\ updatePc = "sky"
    /\ \E o \in Outcomes :
          IF o = "ok"
          THEN /\ celestialData' =
                     [present |-> TRUE, bodies |-> SkyBodies(FALSE)]
               /\ requests' = [requests EXCEPT !.ast = ThisLocationQuery]
               /\ updatePc' = "asteroids"
               /\ UNCHANGED container
          ELSE /\ container' = ErrorLoading
               /\ updatePc' = "idle"
               /\ UNCHANGED <<celestialData, requests>>
    /\ UNCHANGED <<location, rendererRest>>
    /\ UNCHANGED <<settingsLocation, serverSynced, syncPc, syncOutcome,
                   updateLocation>>
    /\ UNCHANGED exLocatedUpdate

\* The request of loadAsteroids() ends (a failure is caught and logged) and
\* loadComets() sends its request.
LocatedAsteroidResponse ==
    /\ updatePc = "asteroids"
    /\ \E o \in Outcomes :
          celestialData' =
              AfterLoad(o, ResponseBodies(AsteroidBodies, requests.ast,
                                          DefaultAsteroidMagnitude))
    /\ requests' = [requests EXCEPT !.com = ThisLocationQuery]
    /\ updatePc' = "comets"
    /\ UNCHANGED <<container, location, rendererRest>>
    /\ UNCHANGED <<settingsLocation, serverSynced, syncPc, syncOutcome,
                   updateLocation>>
    /\ UNCHANGED exLocatedUpdate

\* The request of loadComets() ends (a failure is caught and logged) and
\* update() sends the bright-asteroid request with the location it read.
LocatedCometResponse ==
    /\ updatePc = "comets"
    /\ \E o \in Outcomes :
          celestialData' =
              AfterLoad(o, ResponseBodies(CometBodies, requests.com,
                                          DefaultCometMagnitude))
    /\ requests' = [requests EXCEPT !.bright = ObserverQuery(updateLocation)]
    /\ updatePc' = "bright"
    /\ UNCHANGED <<container, location, rendererRest>>
    /\ UNCHANGED <<settingsLocation, serverSynced, syncPc, syncOutcome,
                   updateLocation>>
    /\ UNCHANGED exLocatedUpdate

\* The bright-asteroid request ends: an ok response is merged in, any other
\* response is skipped, and the sky is rendered; a rejected fetch reaches
\* the catch block of update().
BrightAsteroidResponse ==
    /\ updatePc = "bright"
    /\ \E o \in Outcomes :
          IF o = "rejected"
          THEN /\ container' = ErrorLoading
               /\ UNCHANGED celestialData
          ELSE /\ celestialData' =
                     IF o = "ok"
                     THEN [celestialData EXCEPT
                              !.bodies = Spread(@, BrightAsteroidBodies)]
                     ELSE celestialData
               /\ container' = Render(celestialData', container)
    /\ updatePc' = "idle"
    /\ UNCHANGED <<requests, location, rendererRest>>
    /\ UNCHANGED <<settingsLocation, serverSynced, syncPc, syncOutcome,
                   updateLocation>>
    /\ UNCHANGED exLocatedUpdate

NextSettings ==
    \/ SetLocation
    \/ SetLocationResponse
    \/ SyncSettingsToServer
    \/ SyncAsteroidResponse
    \/ SyncCometResponse
    \/ UpdateWithLocation
    \/ LocatedSkyResponse
    \/ LocatedAsteroidResponse
    \/ LocatedCometResponse
    \/ BrightAsteroidResponse

SpecSettings == InitSettings /\ [][NextSettings]_vars

\* ------------------------------------------------------------------------
\* SkyRenderer: selectObject, clearSelection, the dialogs, the click handler
\* of the container and the navigation arrows
\* ------------------------------------------------------------------------
\* the cells of the grid SpecDraw follows, left alone here
drawRest ==
    <<skyBody, showBelowHorizon, isSelected, nameLength, cardinals, cells, sky>>

\* altitude and azimuth (whole degrees) of the bodies of a sky response
SkyPositions ==
    [sun  |-> [altitude |-> 45, azimuth |-> 180],
     moon |-> [altitude |-> 45, azimuth |-> 185],
     mars |-> [altitude |-> 10, azimuth |-> 120]]

\* Object.entries(this.celestialData.bodies): the order of the bodies
BodyOrder == <<"sun", "moon", "mars">>

\* The responses update() gets: all bodies, or a response without mars.
SkyResponses ==
    {[present |-> TRUE, bodies |-> SkyBodies(TRUE)],
     [present |-> TRUE,
      bodies |-> [n \in {"sun", "moon"} |-> SkyBodies(TRUE)[n]]]}

\* the names selectObject() is called with from the menu
MenuNames == BaseNames \union {"pluto"}

\* the grid positions [row, col] of the clicks
ClickCells == {<<10, 41>>, <<10, 36>>, <<18, 14>>, <<39, 79>>}

\* the selection, the container and the dialogs, as the methods pass them on
SkyState ==
    [sel |-> selectedObject, box |-> container, n |-> dialogs,
     kind |-> dialogKind, list |-> dialogList]

\* the dialog that is there is left in the document
KeepObjectDialog(n) == n

\* removeDialog(), and the first lines of showObjectDialog(): the element
\* getElementById('object-dialog') finds is removed
RemoveObjectDialog(n) == IF n > 0 THEN n - 1 ELSE 0

\* showObjectDialog(obj): the dialog found is removed and a new one appended
AfterShowObjectDialog(u) ==
    [u EXCEPT !.n = RemoveObjectDialog(@) + 1, !.kind = "object", !.list = {}]

\* selectObject(objectName, showDialog)
AfterSelectObject(u, data, objectName, showDialog) ==
    IF data.present /\ objectName \in DOMAIN data.bodies
    THEN LET chosen == [u EXCEPT !.sel = objectName, !.box = Render(data, @)]
         IN  IF showDialog THEN AfterShowObjectDialog(chosen) ELSE chosen
    ELSE u

\* this.container.textContent = skyText: the sky text alone
SkyText(data) ==
    [kind |-> "sky_text",
     drawn |-> {n \in DOMAIN data.bodies : data.bodies[n].visible}]

\* clearSelection()
AfterClearSelection(u, data) ==
    [u EXCEPT !.sel = "null",
              !.box = IF data.present THEN SkyText(data) ELSE @]

\* the square of the distance of a body from the clicked cell, with the
\* displayRow and displayCol drawCelestialObject() stored
SquaredDistance(name, cell, shift) ==
    LET dr == cell[1] - DisplayRow(SkyPositions[name].altitude)
        dc == cell[2] - DisplayCol(SkyPositions[name].azimuth, shift)
    IN  dr * dr + dc * dc

\* nearbyObjects: the visible bodies not more than 5 cells from the click
\* (no two bodies share a cell, so no '*' is clicked)
NearbyObjects(data, cell, shift) ==
    {n \in DOMAIN data.bodies :
        /\ data.bodies[n].visible
        /\ SquaredDistance(n, cell, shift) <= 25}

\* the position of a name in the order of the bodies
OrderOf(name) == CHOOSE i \in DOMAIN BodyOrder : BodyOrder[i] = name

\* nearbyObjects[0] after the sort by distance, which keeps the order of
\* bodies at the same distance
Nearest(names, cell, shift) ==
    CHOOSE n \in names :
        \A m \in names :
            \/ SquaredDistance(n, cell, shift) < SquaredDistance(m, cell, shift)
            \/ /\ SquaredDistance(n, cell, shift) = SquaredDistance(m, cell, shift)
               /\ OrderOf(n) <= OrderOf(m)

\* showMultiObjectDialog(objects): the dialog found is removed, the new one
\* lists the bodies and shows the first, which highlightObject() selects
AfterShowMultiObjectDialog(u, data, names, first) ==
    AfterSelectObject([u EXCEPT !.n = RemoveObjectDialog(@) + 1,
                                !.kind = "multi", !.list = names],
                      data, first, FALSE)

\* the click handler of the container for a click on a cell
AfterContainerClick(u, data, cell, shift) ==
    LET near == IF data.present THEN NearbyObjects(data, cell, shift) ELSE {}
    IN  IF near = {} THEN AfterClearSelection(u, data)
        ELSE IF Cardinality(near) = 1
        THEN AfterSelectObject(u, data, Nearest(near, cell, shift), TRUE)
        ELSE AfterShowMultiObjectDialog(u, data, near,
                                        Nearest(near, cell, shift))

\* the selection, the container and the dialogs become those of u
Becomes(u) ==
    /\ selectedObject' = u.sel
    /\ container' = u.box
    /\ dialogs' = u.n
    /\ dialogKind' = u.kind
    /\ dialogList' = u.list

\* After the constructor and its first update(): the sky is rendered with
\* the arrows, nothing is selected.
InitSky ==
    /\ SelectQuiet
    /\ LoaderQuiet
    /\ grace = GraceHours
    /\ DialogQuiet
    /\ EventsQuiet
    /\ CancelQuiet
    /\ DrawQuiet
    /\ PhotometryQuiet
    /\ SettingsQuiet
    /\ SkyQuiet
    /\ celestialData = [present |-> TRUE, bodies |-> SkyBodies(TRUE)]
    /\ container = Render(celestialData, EmptyContainer)
    /\ upc = [u \in Updates |-> "idle"]
    /\ uout = [u \in Updates |-> NoOutcome]
    /\ location = DefaultLocation
    /\ asteroidMaxMagnitude = DefaultAsteroidMagnitude
    /\ cometMaxMagnitude = DefaultCometMagnitude
    /\ sent = [u \in Updates |-> NoRequests]
    /\ latest = 0

\* A click on the sky: the click handler of the container.
ClickSky ==
    /\ \E cell \in ClickCells :
          Becomes(AfterContainerClick(SkyState, celestialData, cell,
                                      horizontalShift))
    /\ clicked' = "sky"
    /\ UNCHANGED <<celestialData, horizontalShift, storedShift>>
    /\ UNCHANGED <<location, rendererRest, drawRest, exSky>>

\* A click on an arrow, which render() put into the container: the
\* listener of the button shifts the horizon, stores the shift and renders;
\* the click then reaches the click handler of the container.
ClickArrow(by, target) ==
    /\ container.kind = "sky"
    /\ WithinShifts(horizontalShift + by)
    /\ horizontalShift' = horizontalShift + by
    /\ storedShift' = horizontalShift'
    /\ \E cell \in ClickCells :
          Becomes(AfterContainerClick(
                      [SkyState EXCEPT !.box = Render(celestialData, @)],
                      celestialData, cell, horizontalShift'))
    /\ clicked' = target
    /\ UNCHANGED celestialData
    /\ UNCHANGED <<location, rendererRest, drawRest, exSky>>

\* A selection in the menu: selectObject(objectName, showDialog).
MenuSelect ==
    /\ \E objectName \in MenuNames, showDialog \in BOOLEAN :
          Becomes(AfterSelectObject(SkyState, celestialData, objectName,
                                    showDialog))
    /\ clicked' = "menu"
    /\ UNCHANGED <<celestialData, horizontalShift, storedShift>>
    /\ UNCHANGED <<location, rendererRest, drawRest, exSky>>

\* A click on an entry of the dialog for several bodies: showObjectData().
ClickListItem ==
    /\ dialogs > 0
    /\ dialogKind = "multi"
    /\ \E objectName \in dialogList :
          Becomes(AfterSelectObject(SkyState, celestialData, objectName, FALSE))
    /\ clicked' = "item"
    /\ UNCHANGED <<celestialData, horizontalShift, storedShift>>
    /\ UNCHANGED <<location, rendererRest, drawRest, exSky>>

\* A click on the close button of the dialog: the dialog for one body is
\* removed and the selection cleared; the dialog for several bodies is
\* removed.
ClickClose ==
    /\ dialogs > 0
    /\ Becomes(IF dialogKind = "object"
               THEN AfterClearSelection([SkyState EXCEPT !.n = @ - 1],
                                        celestialData)
               ELSE [SkyState EXCEPT !.n = RemoveObjectDialog(@)])
    /\ clicked' = "close"
    /\ UNCHANGED <<celestialData, horizontalShift, storedShift>>
    /\ UNCHANGED <<location, rendererRest, drawRest, exSky>>

\* update() got its response: celestialData is replaced and render() runs.
UpdateCelestialData ==
    /\ \E data \in SkyResponses :
          /\ celestialData' = data
          /\ container' = Render(data, container)
    /\ clicked' = "update"
    /\ UNCHANGED <<selectedObject, dialogs, dialogKind, dialogList,
                   horizontalShift, storedShift>>
    /\ UNCHANGED <<location, rendererRest, drawRest, exSky>>

NextSky ==
    \/ ClickSky
    \/ ClickArrow(-5, "nav-left")
    \/ ClickArrow(5, "nav-right")
    \/ MenuSelect
    \/ ClickListItem
    \/ ClickClose
    \/ UpdateCelestialData

SpecSky == InitSky /\ [][NextSky]_vars

\* ------------------------------------------------------------------------
\* Properties of select()
\* ------------------------------------------------------------------------
RowPassesBoth(row) ==
    /\ row.ok
    /\ row.H < absCeil
    /\ row.H + row.dm <= appCeil

\* C1: within one request every Stage 1 step comes before every Stage 2
\* step: when a Stage 2 step runs, Stage 1 has examined every catalog row,
\* and no Stage 1 step follows a Stage 2 step.
C1_Stage1BeforeStage2 ==
    \A i \in 1..Len(steps) :
        steps[i] = "stage2" =>
            /\ Cardinality({j \in 1..(i - 1) : steps[j] = "stage1"}) = Len(catalog)
            /\ \A j \in i..Len(steps) : steps[j] # "stage1"

C1_Witness ==
    /\ ppc = "done"
    /\ Len(catalog) >= 2
    /\ Cardinality({j \in 1..Len(steps) : steps[j] = "stage2"}) >= 2

\* C2 as stated: Stage 1 drops exactly the rows with H > ceiling (a row
\* with H equal to the ceiling is kept), and every returned body comes from
\* a row that respects both ceilings.
C2_AsStated ==
    ppc \in {"stage2", "done"} =>
        /\ survivors = SelectSeq(catalog, LAMBDA r : ~(r.H > absCeil))
        /\ \A i \in 1..Len(result) :
              \E r \in Range(catalog) :
                  /\ r.name = result[i].name
                  /\ r.H <= absCeil
                  /\ r.H + r.dm <= appCeil

\* C2 amended: Stage 1 keeps exactly the rows with H < ceiling (a row with
\* H equal to the ceiling is dropped), and every returned body comes from a
\* row with H < absoluteMagnitudeCeiling and V <= apparentMagnitudeCeiling.
C2_StrictPrefilter ==
    ppc \in {"stage2", "done"} =>
        /\ survivors = SelectSeq(catalog, LAMBDA r : r.H < absCeil)
        /\ \A i \in 1..Len(result) :
              \E r \in Range(catalog) :
                  /\ r.name = result[i].name
                  /\ r.H < absCeil
                  /\ r.H + r.dm <= appCeil

C2_Witness ==
    /\ ppc = "done"
    /\ \E r \in Range(catalog) : r.H = absCeil /\ r \notin Range(survivors)
    /\ \E r \in Range(catalog) : r.H > absCeil
    /\ \E i \in 1..Len(result) :
          \E r \in Range(catalog) :
              r.name = result[i].name /\ r.H + r.dm = appCeil

\* C7: a row whose computation fails never ends the batch: the request
\* never enters an error state, the failing row is counted and absent from
\* the result, and every other row that passes both filters is represented
\* in the result (by itself or by a duplicate of the same body).
C7_RowFailureIsolated ==
    /\ ppc # "error"
    /\ ppc = "done" =>
          /\ \A r \in Range(catalog) :
                ~r.ok => \A i \in 1..Len(result) : result[i].name # r.name
          /\ \A r \in Range(catalog) :
                RowPassesBoth(r) =>
                    \E i \in 1..Len(result) :
                        LowerCase(StripDesignation(result[i].name))
                            = LowerCase(StripDesignation(r.name))
          /\ dropped = Cardinality({i \in 1..Len(survivors) : ~survivors[i].ok})

C7_Witness ==
    /\ ppc = "done"
    /\ dropped >= 1
    /\ \E i, j \in 1..Len(catalog) :
          /\ i < j
          /\ ~catalog[i].ok
          /\ RowPassesBoth(catalog[j])
          /\ \E k \in 1..Len(result) : result[k].name = catalog[j].name

\* C9: the returned list never holds two bodies with the same normalized
\* name key; of "(4) Vesta", "Vesta" and "VESTA" at most one is returned.
C9_NoDuplicateKeys ==
    /\ \A i, j \in 1..Len(result) :
          i # j => NormKey(result[i].name) # NormKey(result[j].name)
    /\ Cardinality({i \in 1..Len(result) :
                       result[i].name \in {NameVesta4, NameVesta, NameVESTA}}) <= 1

C9_Witness ==
    /\ ppc = "done"
    /\ \E i, j \in 1..Len(kept) :
          kept[i].name = NameVesta4 /\ kept[j].name = NameVesta
    /\ Cardinality({i \in 1..Len(result) :
                       result[i].name \in {NameVesta4, NameVesta}}) = 1

\* C10: the returned list is in ascending order of apparent magnitude, and
\* bodies of equal magnitude are in ascending name order: each body ranks
\* strictly before the next one.
C10_RankedByMagnitudeThenName ==
    \A i \in 1..(Len(result) - 1) :
        \/ result[i].magnitude < result[i + 1].magnitude
        \/ /\ result[i].magnitude = result[i + 1].magnitude
           /\ NameLess(result[i].name, result[i + 1].name)

C10_Witness ==
    /\ ppc = "done"
    /\ Len(result) >= 3
    /\ \E i \in 1..(Len(result) - 1) :
          /\ result[i].magnitude = result[i + 1].magnitude
          /\ \E a, b \in 1..Len(kept) :
                a < b /\ kept[a] = result[i + 1] /\ kept[b] = result[i]

\* ------------------------------------------------------------------------
\* Properties of the loader and the caches
\* ------------------------------------------------------------------------
\* A complete entry: every row of one catalog version.
Complete(rows) ==
    /\ Len(rows) = RowsPerFile
    /\ rows[1] \in {1, 2}
    /\ \A i \in 1..Len(rows) : rows[i] = rows[1]

Refreshing(p) == cpc[p] \in {"download", "parse", "write"}

\* C3: whatever a reader takes from the catalog cache or the result cache,
\* at any moment of a refresh, is a complete entry: both caches hold
\* complete entries or nothing, and so does every value load() or a request
\* has returned.
C3_NoPartialEntry ==
    /\ \A k \in Kinds :
          /\ cache[k] = NoEntry \/ Complete(cache[k].rows)
          /\ rcache[k] = NoEntry \/ Complete(rcache[k].rows)
    /\ \A p \in Callers :
          /\ lres[p].status # "none" => Complete(lres[p].rows)
          /\ cres[p].status \in {"cached", "computed"} => Complete(cres[p].rows)

\* A reader took the previous entry while a refresh was writing the new one.
C3_Witness ==
    \E p, q \in Callers :
        /\ cpc[p] = "write"
        /\ Len(tmp[p]) > 0
        /\ Len(tmp[p]) < RowsPerFile
        /\ cpc[q] = "assemble"
        /\ ckind[q] = ckind[p]
        /\ lres[q].status = "hit"
        /\ lres[q].during
        /\ lres[q].rows = cache[ckind[p]].rows
        /\ lres[q].rows[1] # cver[p]

C5_HitTouchesNoNetwork ==
    [][\A p \in Callers :
          (cpc[p] \in {"idle", "done", "wait"} /\ cpc'[p] \in {"assemble", "download"})
          => IF Present(ckind'[p]) /\ now - cache[ckind'[p]].ts <= cwin'[p]
             THEN /\ cpc'[p] = "assemble"
                  /\ lres'[p].status = "hit"
                  /\ lres'[p].rows = cache[ckind'[p]].rows
                  /\ \A q \in Callers : cpc'[q] = "download" => cpc[q] = "download"
             ELSE cpc'[p] = "download"]_vars

\* A hit on an entry exactly as old as the window, with the default window.
C5_Witness ==
    \E p \in Callers :
        /\ cpc[p] = "assemble"
        /\ lres[p].status = "hit"
        /\ cwin[p] = CACHE_VALIDITY_HOURS
        /\ Age(ckind[p]) = CACHE_VALIDITY_HOURS
        /\ \A q \in Callers : ~Refreshing(q)

\* The step of caller p is the failure of its download or parse.
RefreshFails(p) ==
    /\ cpc[p] \in {"download", "parse"}
    /\ cpc'[p] \in {"assemble", "done"}

BaseBodiesIn(data) ==
    /\ data.present
    /\ \A n \in BaseNames :
          n \in DOMAIN data.bodies /\ data.bodies[n].type = "planet"

Failed(o) == o \in {"http_error", "rejected"}

\* C8: in an update() whose sky request succeeded, the end of the asteroid
\* request and of the comet request, failed or not, keeps the Sun, Moon and
\* planet bodies in celestialData and never puts the error_loading message
\* into the container; a failed request leaves celestialData as it was, and
\* when the comet request has ended the container shows the rendered sky
\* with every visible base body drawn.
C8_LoadFailureIsolated ==
    [][\A u \in Updates :
          (upc[u] \in {"asteroids", "comets"} /\ upc'[u] # upc[u])
          => /\ BaseBodiesIn(celestialData')
             /\ container'.kind = "error_loading"
                   => container.kind = "error_loading"
             /\ (Failed(uout'[u].ast) /\ upc[u] = "asteroids")
                   => celestialData' = celestialData /\ upc'[u] = "comets"
             /\ (Failed(uout'[u].com) /\ upc[u] = "comets")
                   => celestialData' = celestialData
             /\ upc[u] = "comets"
                   => /\ upc'[u] = "done"
                      /\ container'.kind = "sky"
                      /\ \A n \in BaseNames :
                            celestialData'.bodies[n].visible
                               => n \in container'.drawn]_vars

\* An update() whose asteroid and comet requests both failed has rendered
\* the base bodies.
C8_Witness ==
    \E u \in Updates :
        /\ upc[u] = "done"
        /\ uout[u].sky = "ok"
        /\ uout[u].ast = "rejected"
        /\ uout[u].com = "http_error"
        /\ BaseBodiesIn(celestialData)
        /\ container.kind = "sky"
        /\ {"sun", "moon"} \subseteq container.drawn
        /\ "Vesta" \notin DOMAIN celestialData.bodies

\* ------------------------------------------------------------------------
\* Properties of the full pipeline
\* ------------------------------------------------------------------------
Served(response) == response.status \in {"cached", "computed"}

\* The result entry a response was served from is within the window.
WithinWindow(response) == now - response.ts <= CACHE_VALIDITY_HOURS

MalformedInputs ==
    LET lat == ParseFloat(latInput)
        lon == ParseFloat(lonInput)
        elevation == ParseFloat(elevInput)
    IN  \/ lat.nan \/ lat.val < -90 \/ lat.val > 90
        \/ lon.nan \/ lon.val < -180 \/ lon.val > 180
        \/ elevation.nan

\* C12 as stated: applyManualCoordinates with a malformed or out-of-range
\* latitude or longitude or a non-numeric elevation reports a validation
\* failure, leaves currentLocation unchanged and does not invoke
\* onLocationChange.
C12_AsStated ==
    [][(dlgOp' = "applyManualCoordinates" /\ MalformedInputs)
          => /\ alerted'
             /\ currentLocation' = currentLocation
             /\ changed' = NoLocation]_vars

\* ------------------------------------------------------------------------
\* Properties of the requests of SkyRenderer
\* ------------------------------------------------------------------------
\* The query carries lat, lon and elevation of the observer location.
CarriesObserver(q) ==
    /\ q.hasObserver
    /\ q.lat = location.latitude
    /\ q.lon = location.longitude
    /\ q.elevation = location.elevation

\* C13 as stated: every request that update() has sent to the sky, the
\* asteroid or the comet endpoint carries the lat, lon and elevation of the
\* observer location.
C13_AsStated ==
    \A u \in Updates :
        /\ sent[u].sky.sent => CarriesObserver(sent[u].sky)
        /\ sent[u].ast.sent => CarriesObserver(sent[u].ast)
        /\ sent[u].com.sent => CarriesObserver(sent[u].com)

\* ------------------------------------------------------------------------
\* Properties of findEvents and of the object dialog
\* ------------------------------------------------------------------------
\* The minutes of the window.
Window == 0..WindowMinutes

\* The minutes of the window that fall on the requester's local day.
LocalDayOfWindow ==
    {t \in Window : -evOffset <= t /\ t < MinutesPerDay - evOffset}

\* The target crosses the meridian at its greatest altitude at t.
UpperTransitAt(t) == (t - evTarget.phase) % SiderealDay = 0

\* The target crosses the meridian through the nadir side at t.
LowerTransitAt(t) == (t - evTarget.phase) % SiderealDay = SiderealDay \div 2

\* The minute of the day a stored time starts with.
ClockOf(text) ==
    (text[1] - 48) * 600 + (text[2] - 48) * 60
        + (text[4] - 48) * 10 + (text[5] - 48)

\* The transit reported is the time of the instant t.
TransitReportedAt(t) ==
    /\ ~events.transit.null
    /\ ClockOf(events.transit.text) = (t + evOffset) % MinutesPerDay

\* C14: the transit findEvents reports is an upper transit of the window
\* that falls on the requester's local calendar day, no transit of that
\* day is higher, it is never a lower transit, and an upper transit of that
\* day after the window start is always reported.
C14_UpperTransitOfLocalDay ==
    evPc = "found" =>
        LET uppers == {t \in LocalDayOfWindow : UpperTransitAt(t)}
            lowers == {t \in LocalDayOfWindow : LowerTransitAt(t)}
        IN  /\ ~events.transit.null =>
                  \E t \in uppers :
                      /\ TransitReportedAt(t)
                      /\ \A o \in uppers \cup lowers :
                             Altitude(evTarget, o) <= Altitude(evTarget, t)
            /\ \A t \in lowers : ~TransitReportedAt(t)
            /\ (\E t \in uppers : t > 0) => ~events.transit.null

\* findEvents has reported the upper transit of the local day although a
\* lower transit of that day came first and another upper transit of the
\* window falls on the next day.
C14_Witness ==
    /\ evPc = "found"
    /\ \E t \in LocalDayOfWindow :
           /\ UpperTransitAt(t)
           /\ TransitReportedAt(t)
           /\ \E l \in LocalDayOfWindow : LowerTransitAt(l) /\ 0 < l /\ l < t
           /\ \E o \in Window \ LocalDayOfWindow : UpperTransitAt(o)

\* The altitude has the same sign over the whole window.
NeverCrosses == \A t \in Window : AboveHorizon(evTarget, t) = AboveHorizon(evTarget, 0)

AlwaysAbove == \A t \in Window : AboveHorizon(evTarget, t)

\* C15 as stated: a target that never crosses the horizon in the window has
\* rise = set = null, and if it is above the horizon throughout, its transit
\* is not null.
C15_AsStated ==
    (evPc = "found" /\ NeverCrosses) =>
        /\ events.rise.null
        /\ events.set.null
        /\ AlwaysAbove => ~events.transit.null

\* C15, amended: a target that never crosses the horizon in the window has
\* rise = set = null; if it is above the horizon throughout, its transit is
\* reported exactly when an upper transit after the window start falls on
\* the local calendar day, and is then a time of maximum altitude.
C15_NeverCrossing ==
    (evPc = "found" /\ NeverCrosses) =>
        /\ events.rise.null
        /\ events.set.null
        /\ AlwaysAbove =>
              /\ ~events.transit.null <=>
                     \E t \in LocalDayOfWindow : UpperTransitAt(t) /\ t > 0
              /\ ~events.transit.null =>
                     \E t \in LocalDayOfWindow :
                         /\ TransitReportedAt(t)
                         /\ \A o \in Window :
                                Altitude(evTarget, o) <= Altitude(evTarget, t)

\* A target that passes the zenith and is never below the horizon has no
\* rise and no set, and its transit is reported.
C15_Witness ==
    /\ evPc = "found"
    /\ AlwaysAbove
    /\ \E t \in Window : Altitude(evTarget, t) = 90
    /\ events.rise.null
    /\ events.set.null
    /\ ~events.transit.null

\* "HH:MM": two digits, a colon, two digits, an hour below 24 and a minute
\* below 60, and nothing after.
IsPlainHHMM(text) ==
    /\ Len(text) = 5
    /\ \A i \in {1, 2, 4, 5} : text[i] \in 48..57
    /\ text[3] = 58
    /\ (text[1] - 48) * 10 + (text[2] - 48) < 24
    /\ (text[4] - 48) * 10 + (text[5] - 48) < 60

\* The line is the label of the key, the "HH:MM" the time starts with, and
\* one unit.
OneUnitSuffix(key, time, line) ==
    \E lang \in Languages :
        line = I18n[lang][key] \o <<58, 32>> \o SubSeq(time.text, 1, 5)
                   \o <<32>> \o (IF lang = "de" THEN I18n.de.hour ELSE KeyText.hour)

\* C18 as stated: every time of the event search is null or a plain "HH:MM",
\* and the object dialog shows a time followed by exactly one unit.
C18_AsStated ==
    evPc = "found" =>
        \A key \in {"rise", "set", "transit"} :
            /\ ~events[key].null => IsPlainHHMM(events[key].text)
            /\ dialogInfo[key] # <<>> =>
                   \E label \in {"rise_time", "set_time", "transit_time"} :
                       OneUnitSuffix(label, events[key], dialogInfo[key])

\* ------------------------------------------------------------------------
\* Properties of cancellation
\* ------------------------------------------------------------------------
\* C16: once the caller has gone away, Stage 2 completes at most the row
\* that was being processed at that moment; no further row is propagated or
\* event-searched, and a row is in progress only if it was then.
C16_StopsAtNextRowBoundary ==
    cancelled =>
        /\ s2 <= cancelledAt + (IF cancelledInRow THEN 1 ELSE 0)
        /\ inRow => (cancelledInRow /\ s2 = cancelledAt)

\* The caller went away while a row was being processed: that row was
\* completed, the request stopped and the rows after it were not processed.
C16_Witness ==
    /\ ppc = "cancelled"
    /\ cancelledInRow
    /\ s2 = cancelledAt + 1
    /\ s2 < Len(survivors)

\* ------------------------------------------------------------------------
\* Properties of render() and drawCelestialObject()
\* ------------------------------------------------------------------------
BelowHorizon(obj) == obj.altitude >= -90 /\ obj.altitude < 0

\* The azimuth of the body as drawCelestialObject computes it after the
\* shift.
ShiftedAzimuth == NormalizedAzimuth(skyBody.azimuth, horizontalShift)

C19_MonotoneInDistanceAndH ==
    (amPrev.called /\ amAlpha < 1799) =>
        /\ (amH >= amPrev.H /\ amR >= amPrev.r /\ amDelta >= amPrev.delta)
              => amV.V >= amPrev.V
        /\ (amH <= amPrev.H /\ amR <= amPrev.r /\ amDelta <= amPrev.delta)
              => amV.V <= amPrev.V

\* A call for the same row farther from the Sun has given a greater
\* apparent magnitude.
C19_Witness ==
    /\ amPrev.called
    /\ amAlpha = 50
    /\ amH = amPrev.H
    /\ amDelta = amPrev.delta
    /\ amR > amPrev.r
    /\ amV.V > amPrev.V

\* ------------------------------------------------------------------------
\* Properties of overlapping update() runs
\* ------------------------------------------------------------------------
\* No update() run is awaiting a response.
AllSettled == \A u \in Updates : upc[u] \in {"idle", "done"}

\* Every request of the run started most recently has succeeded.
LatestSucceeded ==
    /\ latest \in Updates
    /\ upc[latest] = "done"
    /\ uout[latest].sky = "ok"
    /\ uout[latest].ast = "ok"
    /\ uout[latest].com = "ok"

\* The bodies of the sky, asteroid and comet responses of the run started
\* most recently.
LatestBodies ==
    Spread(Spread(SkyBodies(FALSE),
                  ResponseBodies(AsteroidBodies, sent[latest].ast,
                                 DefaultAsteroidMagnitude)),
           ResponseBodies(CometBodies, sent[latest].com,
                          DefaultCometMagnitude))

\* C20 as stated: once every request of overlapping update() runs has
\* completed, celestialData.bodies consists only of the bodies of the
\* responses of the run started most recently, and nothing else is
\* displayed.
C20_AsStated ==
    (AllSettled /\ LatestSucceeded) =>
        /\ celestialData.present
        /\ \A n \in DOMAIN celestialData.bodies :
               n \in DOMAIN LatestBodies /\ celestialData.bodies[n] = LatestBodies[n]
        /\ container.kind = "sky" =>
               container.drawn \subseteq DOMAIN LatestBodies

\* ------------------------------------------------------------------------
\* Properties of update() with the observer's location
\* ------------------------------------------------------------------------
\* C21: every request an update() has sent (base sky, asteroids, comets,
\* bright asteroids) names the same observer, the location that was stored
\* in the settings most recently when update() was called.
C21_AsStated ==
    \A k \in DOMAIN requests :
        requests[k].sent => Observer(requests[k]) = updateLocation

\* ------------------------------------------------------------------------
\* Properties of the SettingsManager
\* ------------------------------------------------------------------------
\* C27: when no call of setLocation() or syncSettingsToServer() is in
\* flight, serverSynced is true only if the most recent of these calls
\* received ok responses; after one that failed or was rejected it is false.
C27_AsStated ==
    (syncPc = "idle" /\ serverSynced) => syncOutcome = "ok"

\* ------------------------------------------------------------------------
\* Properties of t(key)
\* ------------------------------------------------------------------------
\* C28: for every key, t(key) is the entry of the current language when
\* that language defines the key, otherwise the English entry when English
\* defines it, otherwise the key itself.
C28_AsStated ==
    \A key \in DOMAIN KeyText :
        T(key) = IF key \in DOMAIN I18n[currentLanguage]
                 THEN I18n[currentLanguage][key]
                 ELSE IF key \in DOMAIN I18n.en THEN I18n.en[key]
                 ELSE KeyText[key]

\* ------------------------------------------------------------------------
\* Properties of the location of the LocationDialog
\* ------------------------------------------------------------------------
\* a location whose latitude and longitude are numbers within -90..90 and
\* -180..180
ValidCoordinates(place) ==
    /\ ~place.lat.nan /\ place.lat.val >= -90 /\ place.lat.val <= 90
    /\ ~place.lon.nan /\ place.lon.val >= -180 /\ place.lon.val <= 180

\* C29: currentLocation always has a numeric latitude within -90..90 and a
\* numeric longitude within -180..180, and so has every location passed to
\* onLocationChange.
C29_LocationInRange ==
    /\ ValidCoordinates(currentLocation)
    /\ changed # NoLocation => ValidCoordinates(changed)

\* coordinates on the edge of the range were applied and passed on
C29_Witness ==
    /\ dlgOp = "applyManualCoordinates"
    /\ changed # NoLocation
    /\ changed.lat.val = 90
    /\ changed.lon.val = -180

\* ------------------------------------------------------------------------
\* Properties of drawHorizon() and of the cells written
\* ------------------------------------------------------------------------
\* C24: whatever the horizontal shift, drawHorizon() has written all four
\* cardinal letters (azimuths 0, 90, 180, 270), at four different columns
\* of the grid.
C24_AsStated ==
    /\ DOMAIN cardinals = CardinalAzimuths
    /\ \A a \in DOMAIN cardinals :
          /\ cardinals[a] >= 0 /\ cardinals[a] < SKY_WIDTH
          /\ \A b \in DOMAIN cardinals : a # b => cardinals[a] # cardinals[b]

\* C30: every cell written by drawHorizon() and drawCelestialObject(), the
\* label under the selected body included, is a cell of the grid of
\* SKY_HEIGHT rows and SKY_WIDTH columns, and a body whose computed cell is
\* outside the grid writes nothing.
C30_WritesInsideGrid ==
    /\ \A c \in cells :
          /\ c[1] >= 0 /\ c[1] < SKY_HEIGHT
          /\ c[2] >= 0 /\ c[2] < SKY_WIDTH
    /\ sky.rendered =>
          LET row == DisplayRow(skyBody.altitude)
              col == DisplayCol(skyBody.azimuth, horizontalShift)
          IN  (row < 0 \/ row >= SKY_HEIGHT \/ col < 0 \/ col >= SKY_WIDTH)
                  => /\ ~sky.drawn
                     /\ cells = DrawHorizon(horizontalShift)

\* the selected body is drawn on the last row with a long name, its label
\* on the same row, cut off at the left edge
C30_Witness ==
    /\ sky.rendered /\ sky.drawn /\ isSelected
    /\ sky.row = SKY_HEIGHT - 1
    /\ sky.col < 10
    /\ nameLength = 25
    /\ <<SKY_HEIGHT - 1, 0>> \in cells

\* ------------------------------------------------------------------------
\* Properties of the selection, the dialogs and the container
\* ------------------------------------------------------------------------
\* C22: a click on a navigation arrow changes the horizontal shift and its
\* stored copy only: the selection stays as it is and no dialog is opened
\* or closed.
C22_AsStated ==
    [][horizontalShift' # horizontalShift =>
          /\ storedShift' = horizontalShift'
          /\ selectedObject' = selectedObject
          /\ dialogs' = dialogs
          /\ dialogKind' = dialogKind
          /\ dialogList' = dialogList]_vars

\* C23: with the data loaded, the container holds the sky text and the two
\* navigation arrows after every redraw.
C23_AsStated == celestialData.present => container.kind = "sky"

\* C25: the document never has more than one element with id
\* 'object-dialog'.
C25_AtMostOneDialog == dialogs <= 1

\* a dialog for several bodies is open and one of its entries was clicked
C25_Witness ==
    /\ dialogs = 1
    /\ dialogKind = "multi"
    /\ clicked = "item"
    /\ selectedObject = "moon"

\* C26: a selected object is a body of the current celestialData.bodies.
C26_AsStated ==
    selectedObject # "null" => selectedObject \in DOMAIN celestialData.bodies

====
